---------------------------- MODULE Spec2Model ----------------------------
(***************************************************************************)
(* A model of exif2timestream (src/exif2timestream.py): the capture-time   *)
(* cascade, rounding, timestream naming, the configuration parser and the  *)
(* per-image pipeline process_image / timestreamise_image run by           *)
(* process_camera.                                                         *)
(*                                                                         *)
(* Representation.                                                         *)
(*  - A time.struct_time is a record [tm_secs, tm_wday, tm_isdst]:         *)
(*    tm_secs stands for the six civil fields (year .. second) as one      *)
(*    count of seconds, tm_wday and tm_isdst are the fields of the same    *)
(*    name.  Python 2 compares struct_time values as tuples, so the order  *)
(*    is lexicographic on (tm_secs, tm_wday, tm_isdst); None is smaller    *)
(*    than every struct_time.                                              *)
(*  - The local time zone has a fixed offset from UTC.                     *)
(*  - A file is a record [pix, rot, size, dto, idt, jpeg]: the image data, *)
(*    the rotation and size of it, the EXIF DateTimeOriginal and the       *)
(*    "Image DateTime" tag (NoTag, Malformed or a civil time), and whether *)
(*    pexif can open it.  Two files are byte-identical iff the records are *)
(*    equal.                                                               *)
(*  - A str (a name, a path) is a sequence of tokens.                      *)
(***************************************************************************)
EXTENDS Integers, Sequences, FiniteSets, TLC

VARIABLES
    DATE_MASK,  \* the module-level global DATE_MASK
    call,       \* function harness: the arguments of one call
    ret,        \* function harness: what the call returned
    cur_camera,     \* process_camera: the validated camera configuration
    cur_ext,        \* process_camera: the image type of the batch
    cur_images,     \* process_camera: the sorted list of image paths
    count,      \* process_camera: images the loop has gone through
    disk,        \* the files: path -> content
    folders,      \* the directories
    batch,      \* "running", "finished", or "aborted" by an exception
    faults,     \* failing operations so far
    pool,       \* process_camera: n_threads, the workers and what they wrote
    last,       \* the last invocation of process_image: inputs and outcome
    ongoing,    \* the module-level global ongoing
    csv_header, \* parse_camera_config_csv: the first line of the file
    csv_rows,   \* parse_camera_config_csv: the other lines, as lists of cells
    line,       \* parse_camera_config_csv: the row the reader is at
    yielded,    \* parse_camera_config_csv: what the generator yielded so far
    gen         \* parse_camera_config_csv: "running", "exhausted", or the
                \* exception that left the generator

\* Python's None where a struct_time is expected, and where a str is expected.
None == [none |-> TRUE]
NoneStr == <<"<None>">>

-----------------------------------------------------------------------------
\* time module

SecsPerMin == 60
SecsPerHour == 60 * SecsPerMin
SecsPerDay == 24 * SecsPerHour

\* Offset of the local zone east of UTC, in hours (the zone of the tests).
LocalTzHours == 11

\* tm_wday of a civil time: day 0 of the epoch is a Thursday (tm_wday 3).
Wday(secs) == ((secs \div SecsPerDay) + 3) % 7

\* time.strptime: the civil fields of the text; tm_wday computed, tm_isdst -1.
strptime(secs) == [tm_secs |-> secs, tm_wday |-> Wday(secs), tm_isdst |-> -1]

\* time.mktime: local civil time to seconds since the epoch.
mktime(st) == st.tm_secs - LocalTzHours * SecsPerHour

\* time.localtime: seconds since the epoch to local civil time.
localtime(e) ==
    LET secs == e + LocalTzHours * SecsPerHour
    IN  [tm_secs |-> secs, tm_wday |-> Wday(secs), tm_isdst |-> 0]

\* Python 2 round(n / float(d)): to the nearest integer, halves away from zero.
PyRound(n, d) ==
    IF n >= 0 THEN (2 * n + d) \div (2 * d)
    ELSE -((2 * (-n) + d) \div (2 * d))

\* Tuple comparison of two struct_time values (a < b).
StructLess(a, b) ==
    \/ a.tm_secs < b.tm_secs
    \/ a.tm_secs = b.tm_secs /\ a.tm_wday < b.tm_wday
    \/ a.tm_secs = b.tm_secs /\ a.tm_wday = b.tm_wday /\ a.tm_isdst < b.tm_isdst

\* Python 2 "a > b" where either side may be None (None sorts first).
PyGreater(a, b) ==
    IF a = None THEN FALSE
    ELSE IF b = None THEN TRUE
    ELSE StructLess(b, a)

\* The civil fields strftime prints.  The calendar of the model has years of
\* 12 months of 30 days; day 0 is the first day of 1970.
DayNo(secs) == secs \div SecsPerDay
YearOf(secs) == 1970 + (DayNo(secs) \div (12 * 30))
MonthOf(secs) == ((DayNo(secs) % (12 * 30)) \div 30) + 1
MDayOf(secs) == (DayNo(secs) % 30) + 1
HourOf(secs) == (secs % SecsPerDay) \div SecsPerHour
MinOf(secs) == (secs % SecsPerHour) \div SecsPerMin
SecOf(secs) == secs % SecsPerMin

-----------------------------------------------------------------------------
\* round_struct_time

round_struct_time_up(in_time, round_secs, tz_hrs, uselocal) ==
    LET seconds == mktime(in_time)
        rounded == (seconds \div round_secs) * round_secs + round_secs
        rv == localtime(rounded)
    IN  [rv EXCEPT !.tm_isdst = in_time.tm_isdst, !.tm_wday = in_time.tm_wday]

round_struct_time(in_time, round_secs, tz_hrs, uselocal) ==
    LET seconds == mktime(in_time)
        rounded0 == PyRound(seconds, round_secs) * round_secs
        rounded == IF ~uselocal THEN rounded0 - tz_hrs * 60 * 60 ELSE rounded0
        rv == localtime(rounded)
    IN  [rv EXCEPT !.tm_isdst = in_time.tm_isdst, !.tm_wday = in_time.tm_wday]

-----------------------------------------------------------------------------
\* get_new_file_name

SkipImage == "SkipImage"
NoExc == "-"

\* Python truthiness of the two arguments: a struct_time is a non-empty
\* tuple, so only None is falsy; a name is falsy when None or "".
DateTruthy(d) == d # None
StrTruthy(x) == x # NoneStr /\ x # <<>>

\* A str is a sequence of tokens; "" is <<>>, + is \o.
\* A two-digit field (%m, %d, %H, %M, %S and {n:02d}) is two digit tokens.
D2(x) == <<ToString(x \div 10), ToString(x % 10)>>
Y4(secs) == <<ToString(YearOf(secs))>>

\* strftime("%Y_%m_%d", d), strftime("%Y_%m_%d_%H", d), strftime(TS_DATE_FMT, d)
Ymd(s) == Y4(s) \o <<"_">> \o D2(MonthOf(s)) \o <<"_">> \o D2(MDayOf(s))
YmdH(s) == Ymd(s) \o <<"_">> \o D2(HourOf(s))
TS_DATE_FMT(s) == YmdH(s) \o <<"_">> \o D2(MinOf(s)) \o <<"_">> \o D2(SecOf(s))

\* strftime(TS_FMT, date_tuple).format(tsname=, n=, ext=):
\* %Y/%Y_%m/%Y_%m_%d/%Y_%m_%d_%H/{tsname}_%Y_%m_%d_%H_%M_%S_{n:02d}.{ext}
TS_FMT(date_tuple, tsname, n, ext) ==
    LET s == date_tuple.tm_secs
    IN  Y4(s) \o <<"/">> \o
        Y4(s) \o <<"_">> \o D2(MonthOf(s)) \o <<"/">> \o
        Ymd(s) \o <<"/">> \o
        YmdH(s) \o <<"/">> \o
        tsname \o <<"_">> \o TS_DATE_FMT(s) \o <<"_">> \o D2(n) \o <<".">> \o ext

get_new_file_name_or(date_tuple, ts_name, n, ext) ==
    IF ~(DateTruthy(date_tuple) \/ StrTruthy(ts_name))
    THEN [raised |-> SkipImage, value |-> <<>>]
    ELSE [raised |-> NoExc,
          value |-> TS_FMT(IF date_tuple = None THEN strptime(0) ELSE date_tuple,
                           ts_name, n, ext)]

get_new_file_name(date_tuple, ts_name, n, ext) ==
    IF ~(DateTruthy(date_tuple) /\ StrTruthy(ts_name))
    THEN [raised |-> SkipImage, value |-> <<>>]
    ELSE [raised |-> NoExc, value |-> TS_FMT(date_tuple, ts_name, n, ext)]

-----------------------------------------------------------------------------
\* EXIF tags and the capture-time cascade

ValueError == "ValueError"

\* The value of an EXIF date tag: absent, text strptime rejects, or a date.
NoTag == [tag |-> "NoTag", secs |-> 0]
Malformed == [tag |-> "Malformed", secs |-> 0]
Tag(secs) == [tag |-> "ok", secs |-> secs]

\* The initial value of DATE_MASK, which is also the default of get_file_date's
\* date_mask parameter (bound when the function is defined).
DEFAULT_DATE_MASK == "%Y%m%d_%H%M%S"
TS_MASK == "%Y_%m_%d_%H_%M_%S"

\* date_reg_exp.findall on one token of the file name: the token matches the
\* digit pattern of the mask or not, and a match parses under the mask (ok)
\* or makes strptime raise ValueError (month 99).
TokenMatch(mask, tok) ==
    CASE mask = DEFAULT_DATE_MASK /\ tok = "19700102_205309" ->
            <<[ok |-> TRUE, secs |-> SecsPerDay + 20 * SecsPerHour + 53 * SecsPerMin + 9]>>
      [] mask = DEFAULT_DATE_MASK /\ tok = "19700101_010000" ->
            <<[ok |-> TRUE, secs |-> SecsPerHour]>>
      [] mask = DEFAULT_DATE_MASK /\ tok = "19709902_205309" ->
            <<[ok |-> FALSE, secs |-> 0]>>
      [] mask = TS_MASK /\ tok = "1970_01_02_21_00_00" ->
            <<[ok |-> TRUE, secs |-> SecsPerDay + 21 * SecsPerHour]>>
      [] OTHER -> <<>>

RECURSIVE findall(_, _)
findall(mask, filename) ==
    IF filename = <<>> THEN <<>>
    ELSE TokenMatch(mask, Head(filename)) \o findall(mask, Tail(filename))

RECURSIVE FirstParsed(_)
FirstParsed(matches) ==
    IF matches = <<>> THEN None
    ELSE IF Head(matches).ok THEN strptime(Head(matches).secs)
    ELSE FirstParsed(Tail(matches))

get_time_from_filename(filename, mask) ==
    LET m == IF mask = "" THEN DATE_MASK ELSE mask
    IN  FirstParsed(findall(m, filename))

\* write_exif_date: TRUE and the file rewritten with DateTimeOriginal set, or
\* FALSE and the file as it was (pexif cannot open it, or the write fails).
write_exif_date(file, date_time, io_ok) ==
    IF file.jpeg /\ io_ok
    THEN [ok |-> TRUE, file |-> [file EXCEPT !.dto = Tag(date_time.tm_secs)]]
    ELSE [ok |-> FALSE, file |-> file]

\* datetime.fromtimestamp(mktime(date)) + timedelta(hours=timeshift), timetuple()
Shifted(date, timeshift) ==
    strptime(localtime(mktime(date)).tm_secs + timeshift * 60 * 60)

\* Rounding and time shift applied to a resolved date (lines 514-520).
Adjusted(date, timeshift, round_secs) ==
    LET r == IF round_secs > 1 THEN round_struct_time(date, round_secs, 0, TRUE)
             ELSE date
    IN  IF timeshift # 0 THEN Shifted(r, timeshift) ELSE r

\* get_file_date on the file at path filename.  io_ok: the write-back of the
\* date into the file can succeed.  Returns what was raised, the date and the
\* file as the call leaves it.
get_file_date(file, filename, timeshift, round_secs, date_mask, io_ok) ==
    LET pexif_date == IF file.jpeg /\ file.dto.tag = "ok"
                      THEN strptime(file.dto.secs) ELSE None
        exifread_date == IF file.idt.tag = "ok"
                         THEN strptime(file.idt.secs) ELSE None
        fn_date == get_time_from_filename(filename, date_mask)
        wr == write_exif_date(file, fn_date, io_ok)
    IN  IF file.jpeg /\ file.dto.tag = "Malformed"
        THEN [raised |-> ValueError, date |-> None, file |-> file]
        ELSE IF pexif_date # None
        THEN [raised |-> NoExc, file |-> file,
              date |-> Adjusted(pexif_date, timeshift, round_secs)]
        ELSE IF file.idt.tag = "Malformed"
        THEN [raised |-> ValueError, date |-> None, file |-> file]
        ELSE IF exifread_date # None
        THEN [raised |-> NoExc, file |-> file,
              date |-> Adjusted(exifread_date, timeshift, round_secs)]
        ELSE IF fn_date = None
        THEN [raised |-> NoExc, date |-> None, file |-> file]
        ELSE [raised |-> NoExc, file |-> wr.file,
              date |-> Adjusted(fn_date, timeshift, round_secs)]

-----------------------------------------------------------------------------
\* str and os.path on token sequences

RECURSIVE LastIndex(_, _)
LastIndex(s, tok) ==
    IF s = <<>> THEN 0
    ELSE IF s[Len(s)] = tok THEN Len(s)
    ELSE LastIndex(SubSeq(s, 1, Len(s) - 1), tok)

\* os.path.join(a, b)
join(a, b) == a \o <<"/">> \o b

\* os.path.dirname(p)
dirname(p) ==
    LET i == LastIndex(p, "/")
    IN  IF i = 0 THEN <<>> ELSE SubSeq(p, 1, i - 1)

\* os.path.splitext(p): the extension starts at the last "." of the last
\* component, unless that component begins with it.
splitext(p) ==
    LET i == LastIndex(p, ".")
        j == LastIndex(p, "/")
    IN  IF i > j + 1
        THEN [base |-> SubSeq(p, 1, i - 1), ext |-> SubSeq(p, i, Len(p))]
        ELSE [base |-> p, ext |-> <<>>]

\* s.lstrip(".") / s.strip(".") of an extension
strip_dot(e) == IF e # <<>> /\ Head(e) = "." THEN Tail(e) ELSE e

\* str.lower() of one token
LowerTok(tok) ==
    CASE tok = "JPG" -> "jpg"
      [] tok = "CR2" -> "cr2"
      [] tok = "Last_Image" -> "last_image"
      [] OTHER -> tok

lower(s) == [i \in 1..Len(s) |-> LowerTok(s[i])]

\* "sub" in s, for a one-token sub
contains(s, sub) == \E i \in 1..Len(s) : s[i] = sub

\* os.path.relpath(image, source) for an image below source
relpath(image, source) == SubSeq(image, Len(source) + 2, Len(image))

\* template.format(folder=, res=, step=)
RECURSIVE format(_, _, _, _)
format(t, folder, res, step) ==
    IF t = <<>> THEN <<>>
    ELSE (CASE Head(t) = "{folder}" -> <<folder>>
            [] Head(t) = "{res}" -> <<res>>
            [] Head(t) = "{step}" -> <<step>>
            [] OTHER -> <<Head(t)>>) \o format(Tail(t), folder, res, step)

RAW_FORMATS == {"cr2", "nef", "tif", "tiff", "raw"}

-----------------------------------------------------------------------------
\* The file system: fs maps the path of each file to its content, dirs is the
\* set of directories.  F is the set of operations that fail in this
\* invocation (faults of the environment).

IOError == "IOError"
OSError == "OSError"
AttributeError == "AttributeError"

exists(fs, dirs, p) == p \in DOMAIN fs \/ p \in dirs

\* d and the directories above it
Ancestors(d) ==
    {d} \cup {SubSeq(d, 1, i - 1) : i \in {k \in 1..Len(d) : d[k] = "/"}}

\* os.makedirs(d): OSError when d exists or cannot be made.
makedirs(dirs, d, fails) ==
    IF d \in dirs \/ fails THEN [raised |-> OSError, dirs |-> dirs]
    ELSE [raised |-> NoExc, dirs |-> dirs \cup Ancestors(d)]

\* shutil.copyfile(src, dst): dst is created or overwritten.
copyfile(fs, src, dst) ==
    [p \in DOMAIN fs \cup {dst} |-> IF p = dst THEN fs[src] ELSE fs[p]]

\* os.unlink(p)
unlink(fs, p) == [q \in DOMAIN fs \ {p} |-> fs[q]]

\* _dont_clobber(fn, mode): mode is "append" or SkipImage.
dont_clobber(fs, dirs, fn, mode) ==
    IF exists(fs, dirs, fn)
    THEN IF mode = SkipImage THEN [raised |-> SkipImage, path |-> fn]
         ELSE IF mode = "append"
         THEN LET sp == splitext(fn)
              IN  [raised |-> NoExc,
                   path |-> IF sp.ext # <<>>
                            THEN sp.base \o <<"_1", ".">> \o sp.ext
                            ELSE sp.base \o <<"_1">>]
         ELSE [raised |-> ValueError, path |-> fn]
    ELSE [raised |-> NoExc, path |-> fn]

\* make_timestream_name(camera, res, step)
make_timestream_name(camera, res, step) ==
    format(camera.fn_structure, "original", res, step)

\* What PIL holds of an opened image; NoImage is Python's None.
NoImage == [pix |-> "", rot |-> ""]
Image_open(file) == [pix |-> file.pix, rot |-> file.rot]

\* new_res[camera.orientation in ("90", "270")] as text
ResTag(camera, new_res) ==
    IF camera.orientation \in {"90", "270"} THEN new_res.h ELSE new_res.w

\* resize_img(filename, destination, w, h, img_array): the resized image is
\* saved at destination and DateTimeOriginal is copied from filename when
\* pexif reads one there.
resize_img(fs, filename, destination, new_res, img_array) ==
    LET src == fs[filename]
        out == [pix |-> img_array.pix, rot |-> img_array.rot,
                size |-> <<new_res.w, new_res.h>>,
                dto |-> IF src.jpeg /\ src.dto.tag = "ok" THEN src.dto ELSE NoTag,
                idt |-> NoTag, jpeg |-> TRUE]
    IN  [p \in DOMAIN fs \cup {destination} |->
            IF p = destination THEN out ELSE fs[p]]

\* The element of a one-element set: Only({e : x \in {v}}) is e with x bound
\* to the value of v, which is computed once.
Only(S) == CHOOSE r \in S : TRUE

\* resize_function(camera, image_date, dest, img_array), from the k-th entry
\* of camera.resolutions on.
RECURSIVE resize_from(_, _, _, _, _, _, _, _)
resize_from(fs, dirs, camera, image_date, dest, img_array, k, F) ==
    IF k > Len(camera.resolutions) THEN [raised |-> NoExc, fs |-> fs, dirs |-> dirs]
    ELSE
    LET new_res == camera.resolutions[k]
        ts_name == make_timestream_name(camera, ResTag(camera, new_res), "orig")
    IN  Only({
        IF nm.raised # NoExc THEN [raised |-> nm.raised, fs |-> fs, dirs |-> dirs]
        ELSE Only({
            IF resized_img \in DOMAIN fs
            THEN [raised |-> NoExc, fs |-> fs, dirs |-> dirs]
            ELSE Only({
                IF img_array = NoImage
                THEN [raised |-> AttributeError, fs |-> fs, dirs |-> mk.dirs]
                ELSE IF "save" \in F \/ dirname(resized_img) \notin mk.dirs
                THEN [raised |-> IOError, fs |-> fs, dirs |-> mk.dirs]
                ELSE Only({ resize_from(saved, mk.dirs, camera, image_date, dest,
                                        img_array, k + 1, F)
                          : saved \in {resize_img(fs, dest, resized_img, new_res,
                                                  img_array)} })
              : mk \in { IF exists(fs, dirs, dirname(resized_img))
                         THEN [raised |-> NoExc, dirs |-> dirs]
                         ELSE makedirs(dirs, dirname(resized_img),
                                       "resize_makedirs" \in F) } })
          : resized_img \in {
                join(join(camera.destination,
                          format(camera.ts_structure, "output", ResTag(camera, new_res),
                                 "orig")),
                     nm.value) } })
      : nm \in {get_new_file_name(image_date, ts_name, 0, <<"jpg">>)} })

resize_function(fs, dirs, camera, image_date, dest, img_array, F) ==
    resize_from(fs, dirs, camera, image_date, dest, img_array, 2, F)

\* rotate_image(rotation, dest): the rotated image saved over dest (PIL keeps
\* no EXIF), or nothing done and None returned on IOError.
rotate_image(fs, rotation, dest, fails) ==
    IF fails THEN [img |-> NoImage, fs |-> fs]
    ELSE LET out == [fs[dest] EXCEPT !.rot = rotation, !.dto = NoTag, !.idt = NoTag,
                                     !.jpeg = TRUE]
         IN  [img |-> Image_open(out), fs |-> [fs EXCEPT ![dest] = out]]

-----------------------------------------------------------------------------
\* The camera configuration: validators, CameraFields, parse_structures

TypeError == "TypeError"

\* A cell of the CSV file is a str; NoneCell is the None csv.DictReader puts
\* where a row is shorter than the header.
NoneCell == "<None>"

\* The numerals among the cells, for int().
Numerals ==
    ("0" :> 0) @@ ("1" :> 1) @@ ("5" :> 5) @@ ("600" :> 600) @@ ("1800" :> 1800)
    @@ ("1100" :> 1100)

Ok(v) == [raised |-> NoExc, value |-> v]
Raise(e) == [raised |-> e, value |-> <<>>]

\* int(x)
int(x) ==
    IF x = NoneCell THEN Raise(TypeError)
    ELSE IF x \in DOMAIN Numerals THEN Ok(Numerals[x])
    ELSE Raise(ValueError)

\* str(x)
str(x) == Ok(IF x = NoneCell THEN "None" ELSE x)

bool_str(x) ==
    IF x = NoneCell THEN Raise(AttributeError)
    ELSE IF x \in {"t", "true", "y", "yes", "f", "false", "n", "no"}
    THEN Ok(x \in {"t", "true", "y", "yes"})
    ELSE IF int(x).raised # NoExc THEN Raise(ValueError)
    ELSE Ok(int(x).value # 0)

int_time_hr_min(x) ==
    IF int(x).raised # NoExc THEN Raise(int(x).raised)
    ELSE Ok(<<int(x).value \div 100, int(x).value % 100>>)

\* The paths os.path.exists finds when the file is read.
ExistingPaths == {"src", "dest", "arch"}

path_exists(x) ==
    IF x = NoneCell THEN Raise(TypeError)
    ELSE IF x \in ExistingPaths THEN Ok(<<x>>)
    ELSE Raise(ValueError)

\* localtime() at the time the file is read
Now == localtime(3 * SecsPerDay)

\* strptime(x, "%Y_%m_%d") of the dates among the cells
Dates ==
    ("1970_01_02" :> strptime(SecsPerDay)) @@ ("1970_01_03" :> strptime(2 * SecsPerDay))

DATE_NOW_CONSTANTS == {"now", "current"}

date(x) ==
    IF x = NoneCell THEN Raise(AttributeError)
    ELSE IF x \in DATE_NOW_CONSTANTS THEN Ok(Now)
    ELSE IF x \in DOMAIN Dates THEN Ok(Dates[x])
    ELSE Raise(ValueError)

\* date_end(x) that never clears the global ongoing.
date_end_sticky(x, og) ==
    IF x = NoneCell THEN [raised |-> AttributeError, value |-> <<>>, ongoing |-> og]
    ELSE IF x \in DATE_NOW_CONSTANTS
    THEN [raised |-> NoExc, value |-> Now, ongoing |-> TRUE]
    ELSE IF x \in DOMAIN Dates
    THEN [raised |-> NoExc, value |-> Dates[x], ongoing |-> og]
    ELSE [raised |-> ValueError, value |-> <<>>, ongoing |-> og]

\* date_end(x) when the global ongoing is og: the result and the new ongoing.
date_end(x, og) ==
    IF x = NoneCell THEN [raised |-> AttributeError, value |-> <<>>, ongoing |-> og]
    ELSE IF x \in DATE_NOW_CONSTANTS
    THEN [raised |-> NoExc, value |-> Now, ongoing |-> TRUE]
    ELSE IF x \in DOMAIN Dates
    THEN [raised |-> NoExc, value |-> Dates[x], ongoing |-> FALSE]
    ELSE [raised |-> ValueError, value |-> <<>>, ongoing |-> FALSE]

\* x.strip().split('~') of the cells that hold lists
Lists ==
    ("jpg" :> <<"jpg">>) @@ ("raw" :> <<"raw">>) @@ ("jpg~raw" :> <<"jpg", "raw">>)
    @@ ("exe" :> <<"exe">>) @@ ("original" :> <<"original">>)

IMAGE_TYPE_CONSTANTS == {"raw", "jpg"}
FULLRES_CONSTANTS == {"original", "orig", "fullres"}

image_type_str(x) ==
    IF x = NoneCell \/ x \notin DOMAIN Lists THEN Raise(ValueError)
    ELSE IF \A i \in 1..Len(Lists[x]) : Lists[x][i] \in IMAGE_TYPE_CONSTANTS
    THEN Ok(Lists[x])
    ELSE Raise(ValueError)

resolution_str(x) ==
    IF x = NoneCell \/ x \notin DOMAIN Lists THEN Raise(ValueError)
    ELSE IF \A i \in 1..Len(Lists[x]) : Lists[x][i] \in FULLRES_CONSTANTS
    THEN Ok([i \in 1..Len(Lists[x]) |-> [w |-> Lists[x][i], h |-> Lists[x][i]]])
    ELSE Raise(ValueError)

\* '-F0' + x for a one-character x, '-F' + x for a longer one, '' for none
dataset(x) ==
    IF x = NoneCell \/ x = "" THEN Ok(<<>>)
    ELSE IF x \in {"0", "1", "5"} THEN Ok(<<"-F0", x>>)
    ELSE Ok(<<"-F", x>>)

\* '0' + x for a one-character x
cam_pad_str(x) == Ok(IF x = "1" THEN "01" ELSE IF x = "5" THEN "05" ELSE x)

\* x.replace("_", "-"); no cell of the model holds an underscore
remove_underscores(x) == IF x = NoneCell THEN Raise(AttributeError) ELSE Ok(x)

large_json(x) == Ok(IF x \in {"true", "True", "yes", "Yes", "1"} THEN 1 ELSE 0)

method_list(x) ==
    IF x \in {"copy", "archive", "move", "resize", "json"} THEN Ok(x)
    ELSE Raise(ValueError)

mode_list(x) == IF x \in {"batch", "watch"} THEN Ok(x) ELSE Raise(ValueError)

\* CameraFields.ts_csv_fields: attribute, column, validator
ts_csv_fields ==
    << <<"use", "USE", "bool_str">>,
       <<"location", "LOCATION", "remove_underscores">>,
       <<"expt", "EXPT", "remove_underscores">>,
       <<"cam_num", "CAM_NUM", "cam_pad_str">>,
       <<"source", "SOURCE", "path_exists">>,
       <<"destination", "DESTINATION", "path_exists">>,
       <<"archive_dest", "ARCHIVE_DEST", "path_exists">>,
       <<"expt_end", "EXPT_END", "date_end">>,
       <<"expt_start", "EXPT_START", "date">>,
       <<"interval", "INTERVAL", "int">>,
       <<"image_types", "IMAGE_TYPES", "image_type_str">>,
       <<"method", "METHOD", "method_list">>,
       <<"resolutions", "RESOLUTIONS", "resolution_str">>,
       <<"sunrise", "SUNRISE", "int_time_hr_min">>,
       <<"sunset", "SUNSET", "int_time_hr_min">>,
       <<"timezone", "CAMERA_TIMEZONE", "int_time_hr_min">>,
       <<"user", "USER", "remove_underscores">>,
       <<"mode", "MODE", "mode_list">>,
       <<"project_owner", "PROJECT_OWNER", "remove_underscores">>,
       <<"ts_structure", "TS_STRUCTURE", "str">>,
       <<"filename_date_mask", "FILENAME_DATE_MASK", "str">>,
       <<"orientation", "ORIENTATION", "str">>,
       <<"fn_parse", "FN_PARSE", "str">>,
       <<"fn_structure", "FN_STRUCTURE", "str">>,
       <<"datasetID", "DATASETID", "dataset">>,
       <<"timeshift", "TIMESHIFT", "str">>,
       <<"userfriendlyname", "USERFRIENDLYNAME", "str">>,
       <<"large_json", "LARGE_JSON", "large_json">>,
       <<"json_updates", "JSON_UPDATES", "str">> >>

Fields == 1..Len(ts_csv_fields)
TS_CSV == [a \in {ts_csv_fields[i][1] : i \in Fields} |->
             ts_csv_fields[CHOOSE i \in Fields : ts_csv_fields[i][1] = a][2]]
CSV_TS == [c \in {ts_csv_fields[i][2] : i \in Fields} |->
             ts_csv_fields[CHOOSE i \in Fields : ts_csv_fields[i][2] = c][1]]

REQUIRED ==
    {"use", "destination", "expt", "cam_num", "expt_end", "expt_start", "image_types",
     "interval", "location", "archive_dest", "method", "source"}

\* SCHEMA[k](v), when the global ongoing is og
SCHEMA(k, v, og) ==
    LET f == ts_csv_fields[CHOOSE i \in Fields : ts_csv_fields[i][1] = k][3]
    IN  CASE f = "bool_str" -> bool_str(v)
          [] f = "remove_underscores" -> remove_underscores(v)
          [] f = "cam_pad_str" -> cam_pad_str(v)
          [] f = "path_exists" -> path_exists(v)
          [] f = "date_end" -> [raised |-> date_end(v, og).raised,
                                value |-> date_end(v, og).value]
          [] f = "date" -> date(v)
          [] f = "int" -> int(v)
          [] f = "image_type_str" -> image_type_str(v)
          [] f = "method_list" -> method_list(v)
          [] f = "resolution_str" -> resolution_str(v)
          [] f = "int_time_hr_min" -> int_time_hr_min(v)
          [] f = "mode_list" -> mode_list(v)
          [] f = "dataset" -> dataset(v)
          [] f = "large_json" -> large_json(v)
          [] f = "str" -> str(v)

\* CameraFields(csv_config_dict): the outcomes of the constructor.  The dict
\* comprehension of line 250 calls the validators in the order of the dict,
\* so when several of them raise, any of them may be the one that does, and
\* date_end may or may not have set ongoing before.
CameraFields(csv_config_dict, og) ==
    LET known == {c \in DOMAIN csv_config_dict : c \in DOMAIN CSV_TS}
        keys == {CSV_TS[c] : c \in known}
        cell(k) == csv_config_dict[TS_CSV[k]]
        checked == [k \in keys |-> SCHEMA(k, cell(k), og)]
        failing == {k \in keys : checked[k].raised # NoExc}
        after == IF "expt_end" \in keys THEN date_end(cell("expt_end"), og).ongoing ELSE og
        attrs == keys \cup {"interval", "method"}
    IN  IF ~(REQUIRED \ {"interval", "method"} \subseteq keys)
        THEN {[raised |-> ValueError, camera |-> <<>>, ongoing |-> og]}
        ELSE IF failing # {}
        THEN {[raised |-> checked[k].raised, camera |-> <<>>, ongoing |-> o] :
                 k \in failing, o \in {og, after}}
        ELSE {[raised |-> NoExc, ongoing |-> after,
               camera |-> [k \in attrs |->
                             IF k \in keys THEN checked[k].value
                             ELSE IF k = "interval" THEN 1 ELSE "archive"]]}

\* camera.expt + '-' + camera.location + "-C" + camera.cam_num + camera.datasetID
ts_id(cam) == <<cam.expt, "-", cam.location, "-C", cam.cam_num>> \o cam.datasetID

\* A template cell of the configuration as tokens: the names a replace can
\* hit are tokens of their own, and EXPT_START is EXPT followed by _START,
\* as EXPT is a part of it.  Any other text is one token.
Tokens(x) ==
    CASE x = "EXPT/LOCATION-location/potato" ->
            <<"EXPT", "/", "LOCATION", "-location", "/", "potato">>
      [] x = "/EXPT/{folder}/CAM_NUM" -> <<"/", "EXPT", "/", "{folder}", "/", "CAM_NUM">>
      [] x = "EXPT_START/{folder}/LOCATION" ->
            <<"EXPT", "_START", "/", "{folder}", "/", "LOCATION">>
      [] OTHER -> <<x>>

\* s.replace(old, new) on token sequences
RECURSIVE replace(_, _, _)
replace(s, old, new) ==
    IF Len(s) < Len(old) \/ old = <<>> THEN s
    ELSE IF SubSeq(s, 1, Len(old)) = old
    THEN new \o replace(SubSeq(s, Len(old) + 1, Len(s)), old, new)
    ELSE <<Head(s)>> \o replace(Tail(s), old, new)

\* parse_structures(camera): the outcomes of the call.  AttributeError when
\* an attribute it reads was not a column of the file; else the camera with
\* userfriendlyname, ts_structure and fn_structure filled in.  The loops
\* "for key, value in camera.__dict__.items()" replace key.upper() by
\* str(value) in the order of the dict, which is any order of the keys.
parse_structures(camera) ==
    LET has(k) == k \in DOMAIN camera
        defaulted == camera.userfriendlyname = "" \/ camera.ts_structure = ""
                     \/ camera.fn_structure = ""
        upper(k) == CASE k = "expt" -> <<"EXPT">>
                      [] k = "expt_start" -> <<"EXPT", "_START">>
                      [] k = "location" -> <<"LOCATION">>
                      [] k = "cam_num" -> <<"CAM_NUM">>
        value(k) == IF k = "expt_start" THEN <<"time.struct_time">> ELSE <<camera[k]>>
        keys == {"expt", "expt_start", "location", "cam_num"} \cap DOMAIN camera
        supplied == camera.userfriendlyname # "" \/ camera.ts_structure # ""
                    \/ camera.fn_structure # ""
        items == IF supplied
                 THEN {o \in [1..Cardinality(keys) -> keys] :
                          \A a, b \in DOMAIN o : a # b => o[a] # o[b]}
                 ELSE {<<>>}
        RECURSIVE replaced(_, _)
        replaced(t, o) ==
            IF o = <<>> THEN t
            ELSE replaced(replace(t, upper(Head(o)), value(Head(o))), Tail(o))
        no_sep(t) == SelectSeq(t, LAMBDA tok : tok # "/")
        dashes(t) == [a \in DOMAIN t |-> CASE t[a] = "_START" -> "-START"
                                            [] t[a] = "_" -> "-"
                                            [] OTHER -> t[a]]
        lstrip_sep(t) == IF t # <<>> /\ Head(t) = "/" THEN Tail(t) ELSE t
    IN  IF ~has("userfriendlyname") \/ ~has("ts_structure") \/ ~has("fn_structure")
        THEN {[raised |-> AttributeError, camera |-> camera]}
        ELSE IF defaulted /\ ~has("datasetID")
        THEN {[raised |-> AttributeError, camera |-> camera]}
        ELSE {[raised |-> NoExc,
               camera |-> [camera EXCEPT
                !.userfriendlyname =
                    IF camera.userfriendlyname = "" THEN ts_id(camera)
                    ELSE no_sep(replaced(Tokens(camera.userfriendlyname), o)),
                !.ts_structure =
                    IF camera.ts_structure = ""
                    THEN <<camera.expt, "/">> \o <<camera.location, "-C", camera.cam_num>>
                         \o camera.datasetID \o <<"/", "{folder}", "/">>
                         \o ts_id(camera) \o <<"~", "{res}", "-", "{step}">>
                    ELSE dashes(lstrip_sep(replaced(Tokens(camera.ts_structure), o)))
                         \o <<"~", "{res}", "-", "{step}">>,
                !.fn_structure =
                    IF camera.fn_structure = ""
                    THEN ts_id(camera) \o <<"~", "{res}", "-", "{step}">>
                    ELSE dashes(no_sep(replaced(Tokens(camera.fn_structure), o)))
                         \o <<"~", "{res}", "-", "{step}">>]] : o \in items}

-----------------------------------------------------------------------------
\* timestreamise_image and process_image

\* The extension of a path as one token, without the dot ("" when none).
ext_of(p) ==
    LET e == strip_dot(splitext(p).ext)
    IN  IF e = <<>> THEN "" ELSE e[Len(e)]

\* The full-resolution path timestreamise_image computes for a date.
out_image_path(camera, image, image_date, step) ==
    LET ts_name == make_timestream_name(camera, "fullres", step)
        nm == get_new_file_name(image_date, ts_name, 0, strip_dot(splitext(image).ext))
    IN  [raised |-> nm.raised,
         path |-> join(join(camera.destination,
                            format(camera.ts_structure, "original", "fullres", step)),
                       nm.value)]

\* Lines 613-627: resize_function with every exception turned into SkipImage.
resize_or_skip(fs, dirs, camera, image_date, dest, img_array, F) ==
    Only({ [raised |-> IF rs.raised = NoExc THEN NoExc ELSE SkipImage,
            fs |-> rs.fs, dirs |-> rs.dirs]
         : rs \in {resize_function(fs, dirs, camera, image_date, dest, img_array, F)} })

\* Lines 606-627: rotation and resizing of the copy at dest.
rotate_and_resize(fs, dirs, camera, image_date, dest, step, F) ==
    LET many == Len(camera.resolutions) > 1 /\ step # "raw"
        rotating == camera.orientation # "" /\ step # "raw"
    IN  IF rotating
        THEN Only({
            Only({ IF many
                   THEN resize_or_skip(stamped, dirs, camera, image_date, dest, rot.img, F)
                   ELSE [raised |-> NoExc, fs |-> stamped, dirs |-> dirs]
                 : stamped \in {
                     [rot.fs EXCEPT ![dest] =
                        write_exif_date(rot.fs[dest], image_date,
                                        "exif_write" \notin F).file] } })
          : rot \in {rotate_image(fs, camera.orientation, dest, "decode" \in F)} })
        ELSE IF ~many THEN [raised |-> NoExc, fs |-> fs, dirs |-> dirs]
        ELSE IF "decode" \in F THEN [raised |-> IOError, fs |-> fs, dirs |-> dirs]
        ELSE resize_or_skip(fs, dirs, camera, image_date, dest, Image_open(fs[dest]), F)

\* Lines 588-627 of timestreamise_image, for the destination out_image.
copy_to_timestream(fs, dirs, image, camera, image_date, out_image, step, F) ==
    Only({
        IF mk.raised # NoExc /\ dirname(out_image) \notin mk.dirs
        THEN [raised |-> SkipImage, fs |-> fs, dirs |-> mk.dirs, dest |-> <<>>]
        ELSE IF dont_clobber(fs, mk.dirs, out_image, SkipImage).raised # NoExc
        THEN [raised |-> SkipImage, fs |-> fs, dirs |-> mk.dirs, dest |-> <<>>]
        ELSE IF "copy" \in F
        THEN [raised |-> SkipImage, fs |-> fs, dirs |-> mk.dirs, dest |-> <<>>]
        ELSE Only({
            Only({ [raised |-> rr.raised, fs |-> rr.fs, dirs |-> rr.dirs,
                    dest |-> out_image]
                 : rr \in {rotate_and_resize(copied, mk.dirs, camera, image_date,
                                             out_image, step, F)} })
          : copied \in {copyfile(fs, image, out_image)} })
      : mk \in {makedirs(dirs, dirname(out_image), "makedirs" \in F)} })

\* timestreamise_image(image, camera, subsec=0, step).  The result names the
\* exception raised, the file system left behind and the path written (dest,
\* <<>> when no copy was made).
timestreamise_image(fs, dirs, image, camera, step, F) ==
    Only({
        Only({
            IF gd.raised # NoExc
            THEN [raised |-> gd.raised, fs |-> fs1, dirs |-> dirs, dest |-> <<>>]
            ELSE IF gd.date = None
            THEN [raised |-> SkipImage, fs |-> fs1, dirs |-> dirs, dest |-> <<>>]
            ELSE Only({
                IF out.raised # NoExc
                THEN [raised |-> SkipImage, fs |-> fs1, dirs |-> dirs, dest |-> <<>>]
                ELSE copy_to_timestream(fs1, dirs, image, camera, gd.date, out.path,
                                        step, F)
              : out \in {out_image_path(camera, image, gd.date, step)} })
          : fs1 \in {[fs EXCEPT ![image] = gd.file]} })
      : gd \in {get_file_date(fs[image], image, camera.timeshift,
                              camera.interval * SecsPerMin, DEFAULT_DATE_MASK,
                              "exif_write" \notin F)} })

\* The path of the archive copy (lines 685-692).
archive_path(camera, image, ext) ==
    join(join(join(camera.archive_dest, <<camera.expt>>),
              ts_id(camera) \o <<"~", "fullres", "-",
                                  IF ext \in RAW_FORMATS THEN ext ELSE "orig">>),
         relpath(image, camera.source))

\* Lines 681-702: the copy into the archive tree.
archive_image(fs, dirs, image, camera, ext, image_date, F) ==
    LET ts_name == make_timestream_name(camera, "fullres", "orig")
    IN  IF get_new_file_name(image_date, ts_name, 0, <<"jpg">>).raised # NoExc
        THEN [raised |-> SkipImage, fs |-> fs, dirs |-> dirs, path |-> <<>>]
        ELSE Only({
            Only({
                IF mk.raised # NoExc /\ dirname(target) \notin mk.dirs
                THEN [raised |-> OSError, fs |-> fs, dirs |-> mk.dirs, path |-> <<>>]
                ELSE IF "arch_copy" \in F
                THEN [raised |-> IOError, fs |-> fs, dirs |-> mk.dirs, path |-> <<>>]
                ELSE Only({ [raised |-> NoExc, fs |-> copyfile(fs, image, dc.path),
                             dirs |-> mk.dirs, path |-> dc.path]
                          : dc \in {dont_clobber(fs, mk.dirs, target, "append")} })
              : mk \in {makedirs(dirs, dirname(target), "arch_makedirs" \in F)} })
          : target \in {archive_path(camera, image, ext)} })

\* Lines 677-680: method "resize".
resize_source(fs, dirs, image, camera, image_date, F) ==
    IF "decode" \in F THEN [raised |-> IOError, fs |-> fs, dirs |-> dirs]
    ELSE resize_function(fs, dirs, camera, image_date, image, Image_open(fs[image]), F)

\* Lines 703-718: timestreaming, its SkipImage caught, then the deletion of
\* the source for move and archive.
timestream_and_delete(fs, dirs, image, camera, ext, F) ==
    LET step == IF LowerTok(ext) \in RAW_FORMATS THEN "raw" ELSE "orig"
        del == camera.method \in {"move", "archive"} /\ "unlink" \notin F
    IN  Only({
        IF ts.raised \notin {NoExc, SkipImage}
        THEN [raised |-> ts.raised, fs |-> ts.fs, dirs |-> ts.dirs, dest |-> ts.dest,
              skipped |-> FALSE]
        ELSE [raised |-> NoExc, dirs |-> ts.dirs, dest |-> ts.dest,
              fs |-> IF del THEN unlink(ts.fs, image) ELSE ts.fs,
              skipped |-> ts.raised = SkipImage]
      : ts \in {timestreamise_image(fs, dirs, image, camera, step, F)} })

\* What an invocation of process_image leaves: stage names the line it
\* returned or raised at.
Returned(fs, dirs, image_date, stage) ==
    [raised |-> NoExc, fs |-> fs, dirs |-> dirs, date |-> image_date, archive |-> <<>>,
     dest |-> <<>>, skipped |-> FALSE, masked |-> FALSE, stage |-> stage]

\* Lines 677-718 of process_image, for an image that passed the checks.
process_checked(fs, dirs, image, camera, ext, image_date, F) ==
    Only({
        IF rz.raised # NoExc
        THEN [Returned(rz.fs, rz.dirs, image_date, "resize") EXCEPT !.raised = rz.raised]
        ELSE Only({
            IF ar.raised # NoExc
            THEN [Returned(ar.fs, ar.dirs, image_date, "archive")
                    EXCEPT !.raised = ar.raised]
            ELSE Only({ [Returned(td.fs, td.dirs, image_date, "end")
                           EXCEPT !.raised = td.raised, !.archive = ar.path,
                                  !.dest = td.dest, !.skipped = td.skipped,
                                  !.masked = TRUE]
                      : td \in {timestream_and_delete(ar.fs, ar.dirs, image, camera,
                                                      ext, F)} })
          : ar \in { IF camera.method = "archive"
                     THEN archive_image(rz.fs, rz.dirs, image, camera, ext, image_date, F)
                     ELSE [raised |-> NoExc, fs |-> rz.fs, dirs |-> rz.dirs,
                           path |-> <<>>] } })
      : rz \in { IF camera.method = "resize" /\ ext \notin RAW_FORMATS
                 THEN resize_source(fs, dirs, image, camera, image_date, F)
                 ELSE [raised |-> NoExc, fs |-> fs, dirs |-> dirs] } })

\* process_image((image, camera, ext))
process_image(fs, dirs, image, camera, ext, F) ==
    LET my_ext == LowerTok(ext_of(image))
    IN  Only({
        Only({
            IF gd.raised # NoExc
            THEN [Returned(fs1, dirs, gd.date, "date") EXCEPT !.raised = gd.raised]
            ELSE IF PyGreater(camera.expt_start, gd.date)
                    \/ PyGreater(gd.date, camera.expt_end)
            THEN Returned(fs1, dirs, gd.date, "window")
            ELSE IF ~(my_ext = ext) /\ ~(my_ext \in RAW_FORMATS /\ ext = "raw")
            THEN Returned(fs1, dirs, gd.date, "type")
            ELSE IF camera.method = "json"
            THEN Returned(fs1, dirs, gd.date, "json")
            ELSE IF contains(lower(image), "last_image")
            THEN Returned(fs1, dirs, gd.date, "last_image")
            ELSE process_checked(fs1, dirs, image, camera, ext, gd.date, F)
          : fs1 \in {[fs EXCEPT ![image] = gd.file]} })
      : gd \in {get_file_date(fs[image], image, camera.timeshift,
                              camera.interval * SecsPerMin, DEFAULT_DATE_MASK,
                              "exif_write" \notin F)} })

-----------------------------------------------------------------------------
\* process_camera: the images of one camera and one type, in sorted order

\* A camera as CameraFields leaves it, with the attributes the pipeline
\* reads; the experiment runs from day 1 to day 2, both at 00:00.
RawCamera(m, o, r, mask) ==
    [method |-> m, orientation |-> o, resolutions |-> r, userfriendlyname |-> "",
     expt |-> "BVZ00000", location |-> "EUC-R01C01", cam_num |-> "01",
     datasetID |-> <<>>,
     source |-> <<"src">>, destination |-> <<"dest">>, archive_dest |-> <<"arch">>,
     expt_start |-> strptime(SecsPerDay), expt_end |-> strptime(2 * SecsPerDay),
     interval |-> 1, timeshift |-> 0, filename_date_mask |-> mask, fn_parse |-> "",
     ts_structure |-> "", fn_structure |-> ""]

\* The cameras: every method, with and without rotation, with one or two
\* target resolutions, with and without a file name date mask of their own.
Cameras ==
    UNION { {ps.camera : ps \in parse_structures(RawCamera(m, o, r, mask))} :
        m \in {"copy", "archive", "move", "resize", "json"},
        o \in {"", "90"},
        mask \in {"", TS_MASK},
        r \in { <<[w |-> "original", h |-> "original"]>>,
                <<[w |-> "original", h |-> "original"], [w |-> "1024", h |-> "768"]>> } }

File(dto, idt, jpeg) ==
    [pix |-> "p", rot |-> "", size |-> <<"full", "full">>, dto |-> dto, idt |-> idt,
     jpeg |-> jpeg]

\* The files below the source directory, in the order sorted() gives them.
SourceFiles ==
    << [path |-> <<"src", "/", "19700101_010000", ".", "jpg">>,
        file |-> File(NoTag, NoTag, TRUE)],
       [path |-> <<"src", "/", "IMG_0001", ".", "JPG">>,
        file |-> File(Tag(SecsPerDay + 20 * SecsPerHour + 53 * SecsPerMin + 9), NoTag, TRUE)],
       [path |-> <<"src", "/", "IMG_0002", ".", "JPG">>,
        file |-> File(Tag(SecsPerDay + 20 * SecsPerHour + 53 * SecsPerMin + 20), NoTag, TRUE)],
       [path |-> <<"src", "/", "IMG_0003", ".", "CR2">>,
        file |-> File(NoTag, Tag(SecsPerDay + 10), FALSE)],
       [path |-> <<"src", "/", "IMG_0004", ".", "JPG">>,
        file |-> File(Tag(3 * SecsPerDay), NoTag, TRUE)],
       [path |-> <<"src", "/", "IMG_0005", ".", "JPG">>,
        file |-> File(NoTag, NoTag, TRUE)],
       [path |-> <<"src", "/", "IMG_0006", ".", "JPG">>,
        file |-> File(Malformed, NoTag, TRUE)],
       [path |-> <<"src", "/", "IMG_0007", ".", "JPG">>,
        file |-> File(Tag(SecsPerDay - 20), NoTag, TRUE)],
       [path |-> <<"src", "/", "IMG_0008", ".", "JPG">>,
        file |-> File(Tag(2 * SecsPerDay), NoTag, TRUE)],
       [path |-> <<"src", "/", "IMG_0009", ".", "JPG">>,
        file |-> File(Tag(SecsPerDay + 20 * SecsPerHour + 10 * SecsPerMin), NoTag, TRUE)],
       [path |-> <<"src", "/", "Last_Image", ".", "jpg">>,
        file |-> File(Tag(SecsPerDay + 20 * SecsPerHour + 57 * SecsPerMin + 30), NoTag, TRUE)],
       [path |-> <<"src", "/", "cam", "19700102_205309", "M", ".", "jpg">>,
        file |-> File(NoTag, NoTag, TRUE)],
       [path |-> <<"src", "/", "ts", "1970_01_02_21_00_00", "_", "00", ".", "jpg">>,
        file |-> File(NoTag, NoTag, TRUE)] >>

\* x[0] in ('.', '_') for a name x: the names of the model that begin so.
Hidden(x) == x \in {".hidden", "._IMG_0001", "_old", "_thumbs"}

\* find_image_files(camera)[ext] for the files tree below camera.source (the
\* empty set when the dict has no key ext).  The walk starts at the entry of
\* the source that is named as the type, when there is one, and goes through
\* every directory below; "ext in (this_ext)" is a substring test.
find_image_files(camera, tree, ext) ==
    LET n == Len(camera.source)
        lst == {p[n + 2] : p \in {q \in tree : Len(q) > n + 2 /\ q[n + 3] = "/"}}
        nodes == {x \in lst : ~Hidden(x) /\ LowerTok(x) = ext}
        src == IF nodes = {} THEN camera.source
               ELSE join(camera.source, <<CHOOSE x \in nodes : TRUE>>)
        in_str(a, b) == a = b \/ (a = "jpg" /\ b = "jpg_original")
    IN  { p \in tree :
            /\ Len(p) > Len(src) + 1
            /\ SubSeq(p, 1, Len(src) + 1) = src \o <<"/">>
            /\ LET this_ext == LowerTok(ext_of(p))
               IN  in_str(ext, this_ext) \/ (ext = "raw" /\ this_ext \in RAW_FORMATS)
            /\ (camera.fn_parse = "" \/ contains(p, camera.fn_parse)) }

\* get_actual_start_end(camera, images, ext) on the files fs.  The first loop
\* (lines 884-888) stops at the first image dated at or after expt_start, the
\* second (lines 895-899) at the last one dated at or before expt_end; each
\* keeps the date of the image it looked at last.  The '' date starts with
\* is None here: both are false in "if not (date)".  An exception of
\* get_file_date is not caught.
get_actual_start_end(fs, camera, images, ext) ==
    LET my_ext_images ==
            SelectSeq(images, LAMBDA image :
                LET my_ext == LowerTok(ext_of(image))
                IN  my_ext = ext \/ (my_ext \in RAW_FORMATS /\ ext = "raw"))
        date_of(f, j) ==
            get_file_date(f[my_ext_images[j]], my_ext_images[j], camera.timeshift,
                          camera.interval * SecsPerMin, DEFAULT_DATE_MASK, TRUE)
        RECURSIVE forward(_, _, _)
        forward(f, j, last_date) ==
            IF j > Len(my_ext_images) THEN [raised |-> NoExc, date |-> last_date, fs |-> f]
            ELSE Only({
                IF gd.raised # NoExc THEN [raised |-> gd.raised, date |-> None, fs |-> f]
                ELSE IF gd.date # None /\ ~StructLess(gd.date, camera.expt_start)
                THEN [raised |-> NoExc, date |-> gd.date,
                      fs |-> [f EXCEPT ![my_ext_images[j]] = gd.file]]
                ELSE forward([f EXCEPT ![my_ext_images[j]] = gd.file], j + 1, gd.date)
              : gd \in {date_of(f, j)} })
        RECURSIVE backward(_, _, _)
        backward(f, j, last_date) ==
            IF j < 1 THEN [raised |-> NoExc, date |-> last_date, fs |-> f]
            ELSE Only({
                IF gd.raised # NoExc THEN [raised |-> gd.raised, date |-> None, fs |-> f]
                ELSE IF gd.date # None /\ ~StructLess(camera.expt_end, gd.date)
                THEN [raised |-> NoExc, date |-> gd.date,
                      fs |-> [f EXCEPT ![my_ext_images[j]] = gd.file]]
                ELSE backward([f EXCEPT ![my_ext_images[j]] = gd.file], j - 1, gd.date)
              : gd \in {date_of(f, j)} })
    IN  Only({
            IF fw.raised # NoExc
            THEN [raised |-> fw.raised, p_start |-> None, p_end |-> None, fs |-> fw.fs]
            ELSE Only({
                IF bw.raised # NoExc
                THEN [raised |-> bw.raised, p_start |-> None, p_end |-> None, fs |-> bw.fs]
                ELSE [raised |-> NoExc, fs |-> bw.fs,
                      p_start |-> IF fw.date = None THEN camera.expt_start ELSE fw.date,
                      p_end |-> IF bw.date = None THEN camera.expt_end ELSE bw.date]
              : bw \in {backward(fw.fs, Len(my_ext_images), None)} })
          : fw \in {forward(fs, 1, None)} })

\* DeleteImagesByTime.process_timestream(camera, ext, images) with n_threads
\* 1: process_image of that module (lines 114-150) on each image in turn.  An
\* image inside the date range and the time range is copied below
\* archive_dest; every image is then unlinked, and find_empty_dirs removes
\* the directories of root_path that hold no file.  A date of None fails at
\* image_date.tm_hour; no exception is caught.
dbt_process_timestream(fs, dirs, camera, images) ==
    LET time_tuple(d) == <<HourOf(d.tm_secs), MinOf(d.tm_secs)>>
        tuple_gt(a, b) == a[1] > b[1] \/ (a[1] = b[1] /\ a[2] > b[2])
        find_empty_dirs(f, ds) ==
            {d \in ds :
                \/ SubSeq(d, 1, Len(camera.root_path)) # camera.root_path
                \/ \E q \in DOMAIN f : Len(q) > Len(d) /\ SubSeq(q, 1, Len(d)) = d}
        archive_copy(image) ==
            join(join(camera.archive_dest, <<camera.root_path[Len(camera.root_path)]>>),
                 relpath(image, camera.root_path))
        dbt_process_image(f, ds, image) ==
            Only({
                IF gd.raised # NoExc THEN [raised |-> gd.raised, fs |-> f, dirs |-> ds]
                ELSE IF gd.date = None
                THEN [raised |-> AttributeError, fs |-> f, dirs |-> ds]
                ELSE IF \/ PyGreater(camera.expt_start, gd.date)
                        \/ PyGreater(gd.date, camera.expt_end)
                        \/ tuple_gt(camera.start_time, time_tuple(gd.date))
                        \/ tuple_gt(time_tuple(gd.date), camera.end_time)
                THEN Only({ [raised |-> NoExc, fs |-> left, dirs |-> find_empty_dirs(left, ds)]
                          : left \in {unlink([f EXCEPT ![image] = gd.file], image)} })
                ELSE Only({
                    Only({ [raised |-> NoExc, fs |-> left,
                            dirs |-> find_empty_dirs(left, mk.dirs)]
                         : left \in {unlink(copyfile([f EXCEPT ![image] = gd.file], image,
                                       dont_clobber(f, mk.dirs, archive_copy(image),
                                                    "append").path), image)} })
                  : mk \in {makedirs(ds, dirname(archive_copy(image)), FALSE)} })
              : gd \in {get_file_date(f[image], image, 0, 1, camera.date_mask, TRUE)} })
        RECURSIVE loop(_, _, _)
        loop(f, ds, i) ==
            IF i > Len(images) THEN [raised |-> NoExc, fs |-> f, dirs |-> ds]
            ELSE Only({ IF out.raised # NoExc THEN out ELSE loop(out.fs, out.dirs, i + 1)
                      : out \in {dbt_process_image(f, ds, images[i])} })
    IN  loop(fs, dirs, 1)

\* ListImagesByTime.process_timestream(camera, ext, images, n_threads):
\* process_image of that module (lines 118-145) on each image, then the rows
\* of <timestream_name>_Night_Files.csv (lines 168-179; no path of the model
\* contains "TimeStreams").  With n_threads 1 the loop of lines 152-156
\* appends to night_images of this process.  Otherwise process_image runs in
\* the processes of the pool (lines 157-166) and appends to their copies of
\* the dict, while the file is written from this process's list, which is
\* still empty.  get_file_date is called outside the try: its exception
\* leaves process_timestream before the file is opened.
lbt_process_timestream(fs, camera, images, n_threads) ==
    LET time_tuple(d) == <<HourOf(d.tm_secs), MinOf(d.tm_secs)>>
        tuple_gt(a, b) == a[1] > b[1] \/ (a[1] = b[1] /\ a[2] > b[2])
        lbt_process_image(f, image) ==
            Only({
                IF gd.raised # NoExc THEN [raised |-> gd.raised, fs |-> f, delete |-> FALSE]
                ELSE [raised |-> NoExc, fs |-> [f EXCEPT ![image] = gd.file],
                      delete |-> /\ gd.date # None
                                 /\ \/ PyGreater(camera.expt_start, gd.date)
                                    \/ PyGreater(gd.date, camera.expt_end)
                                    \/ tuple_gt(camera.start_time, time_tuple(gd.date))
                                    \/ tuple_gt(time_tuple(gd.date), camera.end_time)]
              : gd \in {get_file_date(f[image], image, 0, 1, camera.date_mask, TRUE)} })
        RECURSIVE loop(_, _, _)
        loop(f, night, i) ==
            IF i > Len(images) THEN [raised |-> NoExc, fs |-> f, night_images |-> night]
            ELSE Only({
                IF out.raised # NoExc
                THEN [raised |-> out.raised, fs |-> out.fs, night_images |-> night]
                ELSE loop(out.fs, IF out.delete THEN Append(night, images[i]) ELSE night,
                          i + 1)
              : out \in {lbt_process_image(f, images[i])} })
    IN  Only({
            [raised |-> done.raised, fs |-> done.fs, written |-> done.raised = NoExc,
             csv |-> IF done.raised = NoExc /\ n_threads = 1 THEN done.night_images
                     ELSE <<>>]
          : done \in {loop(fs, <<>>, 1)} })

\* sorted(images), for a set of indices of SourceFiles
RECURSIVE sorted(_)
sorted(S) ==
    IF S = {} THEN <<>>
    ELSE LET i == CHOOSE x \in S : \A y \in S : x <= y
         IN  <<SourceFiles[i].path>> \o sorted(S \ {i})

\* Largest number of images of a batch, and of failing operations in it.
MaxBatch == 2
MaxFaults == 1

FaultKinds ==
    {"exif_write", "makedirs", "copy", "decode", "save", "resize_makedirs",
     "arch_makedirs", "arch_copy", "unlink"}

NoInvocation ==
    [image |-> <<>>, F |-> {}, pre_fs |-> <<>>, pre_dirs |-> {}, raised |-> NoExc,
     date |-> None, archive |-> <<>>, dest |-> <<>>, skipped |-> FALSE, stage |-> "none"]

Idle == [fn |-> "none"]

\* process_camera is run as the loop of lines 937-940, one fault set a turn.
NoPool ==
    [n_threads |-> 1, cpu_count |-> 1, workers |-> <<>>, written |-> <<>>,
     summary |-> None, json |-> None]
Pending == [state |-> "pending"]

\* No configuration file is being read.
IdleCsv ==
    /\ ongoing = FALSE
    /\ csv_header = <<>>
    /\ csv_rows = <<>>
    /\ line = 0
    /\ yielded = <<>>
    /\ gen = "idle"

csvvars == <<ongoing, csv_header, csv_rows, line, yielded, gen>>

Init ==
    /\ DATE_MASK = DEFAULT_DATE_MASK
    /\ call = Idle
    /\ ret = Pending
    /\ cur_camera \in Cameras
    /\ cur_ext \in {"jpg", "raw"}
    /\ \E S \in SUBSET {i \in DOMAIN SourceFiles :
                           SourceFiles[i].path \in
                               find_image_files(cur_camera,
                                   {SourceFiles[k].path : k \in DOMAIN SourceFiles},
                                   cur_ext)} :
          /\ Cardinality(S) \in 1..MaxBatch
          /\ cur_images = sorted(S)
          /\ disk = [p \in {SourceFiles[i].path : i \in S} |->
                     (CHOOSE x \in {SourceFiles[i] : i \in S} : x.path = p).file]
    /\ folders = {cur_camera.source, cur_camera.destination, cur_camera.archive_dest}
    /\ count = 0
    /\ batch = "running"
    /\ faults = 0
    /\ last = NoInvocation
    /\ pool = NoPool
    /\ IdleCsv

\* One turn of the loop of lines 937-940: process_image on the next image,
\* with the operations of F failing.  An exception ends process_camera.
ProcessImage(F) ==
    /\ batch = "running" /\ count < Len(cur_images)
    /\ faults + Cardinality(F) <= MaxFaults
    /\ \E image \in {cur_images[count + 1]} :
       \E out \in {process_image(disk, folders, image, cur_camera, cur_ext, F)} :
           /\ disk' = out.fs
           /\ folders' = out.dirs
           /\ DATE_MASK' = IF out.masked THEN cur_camera.filename_date_mask ELSE DATE_MASK
           /\ last' = [image |-> image, F |-> F, pre_fs |-> disk, pre_dirs |-> folders,
                       raised |-> out.raised, date |-> out.date, archive |-> out.archive,
                       dest |-> out.dest, skipped |-> out.skipped, stage |-> out.stage]
           /\ batch' = IF out.raised = NoExc THEN "running" ELSE "aborted"
    /\ count' = count + 1
    /\ faults' = faults + Cardinality(F)
    /\ UNCHANGED <<cur_camera, cur_ext, cur_images, call, ret, pool, csvvars>>

\* The loop has gone through every image (line 951).
FinishCamera ==
    /\ batch = "running" /\ count = Len(cur_images)
    /\ batch' = "finished"
    /\ UNCHANGED <<DATE_MASK, call, ret, cur_camera, cur_ext, cur_images, count, disk,
                   folders, faults, last, pool, csvvars>>

Next ==
    \/ \E F \in SUBSET FaultKinds : ProcessImage(F)
    \/ FinishCamera

vars ==
    <<DATE_MASK, call, ret, cur_camera, cur_ext, cur_images, count, disk, folders, batch,
      faults, last, pool, csvvars>>

Spec == Init /\ [][Next]_vars

-----------------------------------------------------------------------------
\* process_camera with a pool of worker processes (lines 941-949)

\* Largest n_threads and largest multiprocessing.cpu_count() of the runs.
MaxThreads == 3
MaxCores == 3

\* min(n_threads, multiprocessing.cpu_count() - 1), without the max(1, .)
threads_min(n_threads, cpu_count) ==
    IF n_threads < cpu_count - 1 THEN n_threads ELSE cpu_count - 1

\* threads = max(1, min(n_threads, multiprocessing.cpu_count() - 1))
threads(n_threads, cpu_count) ==
    LET m == IF n_threads < cpu_count - 1 THEN n_threads ELSE cpu_count - 1
    IN  IF m > 1 THEN m ELSE 1

\* A worker that is not running process_image.
FreeWorker == [pc |-> "free", image |-> <<>>, dest |-> <<>>]

\* process_camera(camera, ext, images, n_threads) on a machine of cpu_count
\* cores: with n_threads = 1 the calling process is the only worker, else
\* the pool has threads(n_threads, cpu_count) of them.  No operation fails
\* and every embedded date is readable.  This is the state at line 935: the
\* start and end of the summary were computed at line 922, on the files as
\* main found them, and nothing is written yet.
InitPool ==
    /\ DATE_MASK = DEFAULT_DATE_MASK
    /\ call = Idle
    /\ ret = Pending
    /\ cur_camera \in {c \in Cameras : /\ c.method \in {"copy", "move"}
                                       /\ c.orientation = ""
                                       /\ Len(c.resolutions) = 1}
    /\ cur_ext = "jpg"
    /\ \E S \in SUBSET {i \in DOMAIN SourceFiles :
                           /\ SourceFiles[i].path \in
                                  find_image_files(cur_camera,
                                      {SourceFiles[k].path : k \in DOMAIN SourceFiles},
                                      cur_ext)
                           /\ SourceFiles[i].file.dto # Malformed} :
          /\ Cardinality(S) \in 1..MaxBatch
          /\ cur_images = sorted(S)
          /\ \E se \in {get_actual_start_end(
                            [p \in {SourceFiles[i].path : i \in S} |->
                               (CHOOSE x \in {SourceFiles[i] : i \in S} : x.path = p).file],
                            cur_camera, sorted(S), cur_ext)} :
             \E n \in -1..MaxThreads, c \in 1..MaxCores :
                /\ disk = se.fs
                /\ pool = [n_threads |-> n, cpu_count |-> c, written |-> <<>>,
                           workers |-> [w \in 1..(IF n = 1 THEN 1 ELSE threads(n, c)) |->
                                          FreeWorker],
                           summary |-> [p_start |-> se.p_start, p_end |-> se.p_end],
                           json |-> None]
    /\ folders = {cur_camera.source, cur_camera.destination, cur_camera.archive_dest}
    /\ count = 0
    /\ batch = "running"
    /\ faults = 0
    /\ last = NoInvocation
    /\ IdleCsv

\* A free worker takes the next image of the list and runs process_image on
\* it up to the existence check of line 597.  The workers of a pool are
\* processes of their own: what they assign to DATE_MASK stays with them.  When the invocation makes no
\* copy (it returns early or skips the image) it is over; else the worker
\* holds the path the check let through.
TakeImage(w) ==
    /\ batch = "running" /\ count < Len(cur_images)
    /\ pool.workers[w].pc = "free"
    /\ \E image \in {cur_images[count + 1]} :
       \E out \in {process_image(disk, folders, image, cur_camera, cur_ext, {})} :
        /\ IF out.dest = <<>>
           THEN /\ disk' = out.fs
                /\ folders' = out.dirs
                /\ UNCHANGED pool
           ELSE /\ pool' = [pool EXCEPT !.workers[w] =
                               [pc |-> "copy", image |-> image, dest |-> out.dest]]
                /\ UNCHANGED <<disk, folders>>
        /\ DATE_MASK' = IF pool.n_threads = 1 /\ out.masked
                        THEN cur_camera.filename_date_mask ELSE DATE_MASK
    /\ count' = count + 1
    /\ UNCHANGED <<call, ret, cur_camera, cur_ext, cur_images, batch, faults, last,
                   csvvars>>

\* The worker goes on from line 599 with the path it holds: the copy and the
\* rest of process_image, whatever the path holds by now.
CopyImage(w) ==
    /\ pool.workers[w].pc = "copy"
    /\ \E wk \in {pool.workers[w]} :
       \E out \in {process_image([p \in DOMAIN disk \ {wk.dest} |-> disk[p]], folders,
                                 wk.image, cur_camera, cur_ext, {})} :
           /\ disk' = out.fs
           /\ folders' = out.dirs
           /\ pool' = [pool EXCEPT
                         !.workers[w] = FreeWorker,
                         !.written = Append(@, [path |-> wk.dest, image |-> wk.image,
                                                file |-> out.fs[wk.dest]])]
    /\ UNCHANGED <<DATE_MASK, call, ret, cur_camera, cur_ext, cur_images, count, batch,
                   faults, last, csvvars>>

\* Every image was taken and every worker is done (lines 948-951): the
\* summary is written with the start and end computed before (lines 956-994).
FinishPool ==
    /\ batch = "running" /\ count = Len(cur_images)
    /\ \A w \in DOMAIN pool.workers : pool.workers[w].pc = "free"
    /\ batch' = "finished"
    /\ pool' = [pool EXCEPT !.json = pool.summary]
    /\ UNCHANGED <<DATE_MASK, call, ret, cur_camera, cur_ext, cur_images, count, disk,
                   folders, faults, last, csvvars>>

NextPool ==
    \/ \E w \in DOMAIN pool.workers : TakeImage(w)
    \/ \E w \in DOMAIN pool.workers : CopyImage(w)
    \/ FinishPool

SpecPool == InitPool /\ [][NextPool]_vars

-----------------------------------------------------------------------------
\* Runs of main() one after the other over the same trees, method archive

\* Before the first run: an archive camera, nothing in its source directory.
InitRuns ==
    /\ DATE_MASK = DEFAULT_DATE_MASK
    /\ call = Idle
    /\ ret = Pending
    /\ cur_camera \in {c \in Cameras : /\ c.method = "archive"
                                       /\ c.orientation = ""
                                       /\ c.filename_date_mask = ""
                                       /\ Len(c.resolutions) = 1}
    /\ cur_ext = "jpg"
    /\ cur_images = <<>>
    /\ disk = <<>>
    /\ folders = {cur_camera.source, cur_camera.destination, cur_camera.archive_dest}
    /\ count = 0
    /\ batch = "finished"
    /\ faults = 0
    /\ last = NoInvocation
    /\ pool = NoPool
    /\ IdleCsv

\* Between two runs the camera, whose file counter starts again, puts
\* pictures taken with content v into the source directory; the next run
\* finds and sorts what is there (lines 1031-1033).
Upload ==
    /\ batch = "finished"
    /\ \E S \in SUBSET {i \in DOMAIN SourceFiles :
                           SourceFiles[i].path[3] \in {"IMG_0001", "IMG_0002"}},
          v \in {"p", "q"} :
          /\ S # {}
          /\ disk' = [p \in DOMAIN disk \cup {SourceFiles[i].path : i \in S} |->
                         IF \E i \in S : SourceFiles[i].path = p
                         THEN [(CHOOSE x \in {SourceFiles[i] : i \in S} : x.path = p).file
                                   EXCEPT !.pix = v]
                         ELSE disk[p]]
          /\ cur_images' = sorted({i \in DOMAIN SourceFiles :
                                     SourceFiles[i].path \in
                                         find_image_files(cur_camera, DOMAIN disk', cur_ext)})
    /\ count' = 0
    /\ batch' = "running"
    /\ last' = NoInvocation
    /\ UNCHANGED <<DATE_MASK, call, ret, cur_camera, cur_ext, folders, faults, pool,
                   csvvars>>

NextRuns ==
    \/ Upload
    \/ ProcessImage({})
    \/ FinishCamera

SpecRuns == InitRuns /\ [][NextRuns]_vars

-----------------------------------------------------------------------------
\* Calls of the pure functions on inputs drawn from bounded sets

\* Civil times of the inputs: around midnight of day 1, inside day 1, day 3.
SampleSecs ==
    { SecsPerHour,
      SecsPerDay - 20,
      SecsPerDay + 10,
      SecsPerDay + 20 * SecsPerHour + 53 * SecsPerMin + 9,
      SecsPerDay + 20 * SecsPerHour + 53 * SecsPerMin + 20,
      SecsPerDay + 20 * SecsPerHour + 57 * SecsPerMin + 30,
      3 * SecsPerDay }

SampleStructs ==
    { [tm_secs |-> s, tm_wday |-> w, tm_isdst |-> d] :
        s \in SampleSecs, w \in {0, 3, 4}, d \in {-1, 0, 1} }

SampleRoundSecs == {2, 60, 5 * 60, 60 * 60}

SampleNames ==
    { NoneStr, <<>>, <<"test">>, <<"BVZ00000-EUC-R01C01-C01", "~", "fullres", "-", "orig">> }

\* Largest sub-second index n of the calls.
MaxN == 11

SampleFiles ==
    { [pix |-> "p", rot |-> "", size |-> <<"full", "full">>, dto |-> a, idt |-> b, jpeg |-> j] :
        a \in {NoTag, Malformed, Tag(SecsPerDay + 10)},
        b \in {NoTag, Malformed, Tag(3 * SecsPerDay)},
        j \in BOOLEAN }

SampleFilenames ==
    { <<"src", "/", "IMG_0001", ".", "JPG">>,
      <<"src", "/", "cam", "19700102_205309", "M", ".", "jpg">>,
      <<"src", "/", "19709902_205309", "_", "19700101_010000", "_", "19700102_205309", ".", "jpg">>,
      <<"src", "/", "19709902_205309", ".", "jpg">>,
      <<"src", "/", "ts", "1970_01_02_21_00_00", "_", "00", ".", "jpg">> }

\* None as the height of a width-only entry of camera.resolutions.
NoHeight == -1

\* resolution_calc(camera, image): the value of camera.resolutions afterwards.
\* An entry is the str of a full-resolution constant (full, as resolution_str
\* leaves it) or a pair (w, h) where h is None for a width-only entry; size is
\* Image.open(image).size, opens tells whether Image.open succeeds.  The entry
\* at list index x (counted from 1, one step per width-only entry met) is
\* overwritten, whatever the index of the entry that is being read; every
\* exception, the IndexError of the assignment included, is caught and the
\* loop goes on.  The division is the one of Python 2 ints.
resolution_calc(resolutions, orientation, size, opens) ==
    LET RECURSIVE from(_, _, _)
        from(res, i, x) ==
            IF i > Len(res) THEN res
            ELSE IF res[i].full \/ res[i].h # NoHeight THEN from(res, i + 1, x)
            ELSE LET w == res[i].w
                     h == (size[2] * w) \div size[1]
                     new_res == IF orientation \in {"90", "270"}
                                THEN [full |-> FALSE, w |-> h, h |-> w]
                                ELSE [full |-> FALSE, w |-> w, h |-> h]
                 IN  from(IF opens /\ x + 1 <= Len(res)
                          THEN [res EXCEPT ![x + 1] = new_res] ELSE res,
                          i + 1, x + 1)
    IN  from(resolutions, 1, 1)

\* What timestreamise_image leaves of one source image in an empty destination.
FirstRun(camera, image) ==
    timestreamise_image([q \in {image.path} |-> image.file], {<<"src">>}, image.path,
                        camera, "orig", {})

\* The resized derivatives of one source image: every file of the first run
\* but the source and the full-size copy.
Derivatives(camera, image) ==
    DOMAIN FirstRun(camera, image).fs \ {image.path, FirstRun(camera, image).dest}

Calls ==
    { [fn |-> "round_struct_time", in_time |-> t, round_secs |-> r] :
        t \in SampleStructs, r \in SampleRoundSecs }
    \cup
    { [fn |-> "get_new_file_name", date_tuple |-> d, ts_name |-> nm, n |-> n, ext |-> e] :
        d \in {None} \cup {strptime(s) : s \in SampleSecs},
        nm \in SampleNames, n \in {0, 1, MaxN}, e \in {<<"jpg">>, <<"CR2">>} }
    \cup
    { [fn |-> "get_file_date", file |-> f, filename |-> p, timeshift |-> ts,
       round_secs |-> r, date_mask |-> m, io_ok |-> w] :
        f \in SampleFiles, p \in SampleFilenames, ts \in {0, 1}, r \in {1, 60},
        m \in {DEFAULT_DATE_MASK, TS_MASK, ""}, w \in BOOLEAN }
    \cup
    { [fn |-> "find_image_files", ext |-> e, tree |-> t,
       camera |-> [sub_folder |-> b] @@
                  [RawCamera("copy", "", <<[w |-> "original", h |-> "original"]>>, "")
                     EXCEPT !.fn_parse = f]] :
        e \in {"jpg", "raw"}, b \in BOOLEAN, f \in {"", "IMG_0001"},
        t \in SUBSET { <<"src", "/", "IMG_0001", ".", "JPG">>,
                       <<"src", "/", "IMG_0003", ".", "CR2">>,
                       <<"src", "/", "notes", ".", "txt">>,
                       <<"src", "/", "._IMG_0001", ".", "jpg">>,
                       <<"src", "/", "_old", ".", "jpg">>,
                       <<"src", "/", "IMG_0001", ".", "jpg_original">>,
                       <<"src", "/", "subfolder", "/", "IMG_0010", ".", "jpg">>,
                       <<"src", "/", "_thumbs", "/", "IMG_0011", ".", "jpg">>,
                       <<"src", "/", "jpg", "/", "IMG_0020", ".", "JPG">> } }
    \cup
    { [fn |-> "get_actual_start_end", ext |-> e, images |-> sorted(S),
       camera |-> CHOOSE c \in Cameras : c.method = "copy",
       fs |-> [q \in {SourceFiles[i].path : i \in S} |->
                 (CHOOSE x \in {SourceFiles[i] : i \in S} : x.path = q).file]] :
        e \in {"jpg", "raw"},
        S \in {T \in SUBSET DOMAIN SourceFiles : Cardinality(T) <= MaxBatch} }
    \cup
    { [fn |-> "dbt.process_timestream", images |-> sorted(S),
       camera |-> [root_path |-> <<"src">>, archive_dest |-> <<"arch">>,
                   expt_start |-> strptime(SecsPerDay),
                   expt_end |-> strptime(2 * SecsPerDay),
                   start_time |-> <<20, 0>>, end_time |-> <<21, 0>>, date_mask |-> m],
       fs |-> [q \in {SourceFiles[i].path : i \in S} |->
                 (CHOOSE x \in {SourceFiles[i] : i \in S} : x.path = q).file]] :
        m \in {DEFAULT_DATE_MASK, TS_MASK},
        S \in {T \in SUBSET DOMAIN SourceFiles : T # {} /\ Cardinality(T) <= MaxBatch} }
    \cup
    { [fn |-> "lbt.process_timestream", images |-> sorted(S), n_threads |-> n,
       camera |-> [root_path |-> <<"src">>, delete_dest |-> <<"arch">>,
                   expt_start |-> strptime(SecsPerDay),
                   expt_end |-> strptime(2 * SecsPerDay),
                   start_time |-> <<20, 0>>, end_time |-> <<21, 0>>, date_mask |-> m],
       fs |-> [q \in {SourceFiles[i].path : i \in S} |->
                 (CHOOSE x \in {SourceFiles[i] : i \in S} : x.path = q).file]] :
        m \in {DEFAULT_DATE_MASK, TS_MASK}, n \in 1..2,
        S \in {T \in SUBSET DOMAIN SourceFiles : T # {} /\ Cardinality(T) <= MaxBatch} }
    \cup
    (LET ThreeRes == <<[w |-> "original", h |-> "original"],
                       [w |-> "1024", h |-> "768"], [w |-> "640", h |-> "480"]>>
         cam(o) == CHOOSE c \in {ps.camera : ps \in parse_structures(
                                    RawCamera("copy", o, ThreeRes, ""))} : TRUE
     IN  UNION { { [fn |-> "timestreamise_image", image |-> SourceFiles[i].path,
                    camera |-> cam(o), earlier |-> D,
                    fs |-> [q \in {SourceFiles[i].path} \cup D |->
                              IF q = SourceFiles[i].path THEN SourceFiles[i].file
                              ELSE FirstRun(cam(o), SourceFiles[i]).fs[q]]] :
                     D \in SUBSET Derivatives(cam(o), SourceFiles[i]) } :
                 o \in {"", "90"}, i \in {2, 10} })
    \cup
    (LET FullEntry == [full |-> TRUE, w |-> 0, h |-> 0]
         Pair(w, h) == [full |-> FALSE, w |-> w, h |-> h]
     IN  { [fn |-> "resolution_calc", resolutions |-> r, orientation |-> o,
            size |-> z, opens |-> b] :
             r \in { <<FullEntry>>,
                     <<FullEntry, Pair(1920, NoHeight)>>,
                     <<FullEntry, Pair(1024, 768)>>,
                     <<FullEntry, Pair(1024, 768), Pair(640, NoHeight)>>,
                     <<FullEntry, Pair(1920, NoHeight), Pair(640, NoHeight)>>,
                     <<Pair(1920, NoHeight)>>,
                     <<Pair(1920, NoHeight), Pair(640, NoHeight)>> },
             o \in {"", "90", "180", "270"},
             z \in { <<5184, 3456>>, <<3456, 5184>>, <<640, 480>> },
             b \in BOOLEAN })
    \cup
    { [fn |-> "parse_structures",
       camera |-> [RawCamera("copy", "", <<[w |-> "original", h |-> "original"]>>, "")
                     EXCEPT !.ts_structure = t, !.fn_structure = f,
                            !.userfriendlyname = u]] :
        t, f, u \in {"", "EXPT/LOCATION-location/potato", "/EXPT/{folder}/CAM_NUM",
                     "EXPT_START/{folder}/LOCATION"} }

\* The pipeline variables stay as they are while the functions are called.
IdlePipeline ==
    /\ cur_camera = CHOOSE c \in Cameras : c.method = "copy"
    /\ cur_ext = "jpg"
    /\ cur_images = <<>>
    /\ count = 0
    /\ disk = <<>>
    /\ folders = {}
    /\ batch = "finished"
    /\ faults = 0
    /\ last = NoInvocation
    /\ pool = NoPool

pipeline ==
    <<cur_camera, cur_ext, cur_images, count, disk, folders, batch, faults, last, pool>>

InitFn ==
    /\ DATE_MASK = DEFAULT_DATE_MASK
    /\ call \in Calls
    /\ ret = Pending
    /\ IdlePipeline
    /\ IdleCsv

CallRound ==
    /\ call.fn = "round_struct_time" /\ ret.state = "pending"
    /\ ret' = [state |-> "rounded",
               once |-> round_struct_time(call.in_time, call.round_secs, 0, TRUE)]
    /\ UNCHANGED <<call, DATE_MASK, pipeline, csvvars>>

CallRoundAgain ==
    /\ call.fn = "round_struct_time" /\ ret.state = "rounded"
    /\ ret' = [state |-> "rounded twice", once |-> ret.once,
               twice |-> round_struct_time(ret.once, call.round_secs, 0, TRUE)]
    /\ UNCHANGED <<call, DATE_MASK, pipeline, csvvars>>

CallNewFileName ==
    /\ call.fn = "get_new_file_name" /\ ret.state = "pending"
    /\ ret' = [state |-> "returned",
               out |-> get_new_file_name(call.date_tuple, call.ts_name, call.n, call.ext)]
    /\ UNCHANGED <<call, DATE_MASK, pipeline, csvvars>>

CallGetFileDate ==
    /\ call.fn = "get_file_date" /\ ret.state = "pending"
    /\ ret' = [state |-> "returned",
               out |-> get_file_date(call.file, call.filename, call.timeshift,
                                     call.round_secs, call.date_mask, call.io_ok)]
    /\ UNCHANGED <<call, DATE_MASK, pipeline, csvvars>>

CallParseStructures ==
    /\ call.fn = "parse_structures" /\ ret.state = "pending"
    /\ \E ps \in parse_structures(call.camera) :
          ret' = [state |-> "returned", out |-> ps]
    /\ UNCHANGED <<call, DATE_MASK, pipeline, csvvars>>

CallFindImageFiles ==
    /\ call.fn = "find_image_files" /\ ret.state = "pending"
    /\ ret' = [state |-> "returned",
               out |-> find_image_files(call.camera, call.tree, call.ext)]
    /\ UNCHANGED <<call, DATE_MASK, pipeline, csvvars>>

CallGetActualStartEnd ==
    /\ call.fn = "get_actual_start_end" /\ ret.state = "pending"
    /\ ret' = [state |-> "returned",
               out |-> get_actual_start_end(call.fs, call.camera, call.images, call.ext)]
    /\ UNCHANGED <<call, DATE_MASK, pipeline, csvvars>>

CallDeleteByTime ==
    /\ call.fn = "dbt.process_timestream" /\ ret.state = "pending"
    /\ ret' = [state |-> "returned",
               out |-> dbt_process_timestream(call.fs, {<<"src">>, <<"arch">>},
                                              call.camera, call.images)]
    /\ UNCHANGED <<call, DATE_MASK, pipeline, csvvars>>

CallListByTime ==
    /\ call.fn = "lbt.process_timestream" /\ ret.state = "pending"
    /\ ret' = [state |-> "returned",
               out |-> lbt_process_timestream(call.fs, call.camera, call.images,
                                              call.n_threads)]
    /\ UNCHANGED <<call, DATE_MASK, pipeline, csvvars>>

CallTimestreamiseImage ==
    /\ call.fn = "timestreamise_image" /\ ret.state = "pending"
    /\ ret' = [state |-> "returned",
               out |-> timestreamise_image(call.fs, {<<"src">>} \cup
                                             {dirname(q) : q \in call.earlier},
                                           call.image, call.camera, "orig", {})]
    /\ UNCHANGED <<call, DATE_MASK, pipeline, csvvars>>

CallResolutionCalc ==
    /\ call.fn = "resolution_calc" /\ ret.state = "pending"
    /\ ret' = [state |-> "returned",
               out |-> resolution_calc(call.resolutions, call.orientation, call.size,
                                       call.opens)]
    /\ UNCHANGED <<call, DATE_MASK, pipeline, csvvars>>

NextFn ==
    \/ CallRound
    \/ CallRoundAgain
    \/ CallNewFileName
    \/ CallGetFileDate
    \/ CallParseStructures
    \/ CallFindImageFiles
    \/ CallGetActualStartEnd
    \/ CallDeleteByTime
    \/ CallListByTime
    \/ CallTimestreamiseImage
    \/ CallResolutionCalc

varsFn == <<DATE_MASK, call, ret, pipeline, csvvars>>

SpecFn == InitFn /\ [][NextFn]_varsFn

-----------------------------------------------------------------------------
\* parse_camera_config_csv on configuration files drawn from bounded sets

\* The header gen_config writes, the same without the ARCHIVE_DEST column,
\* and the header of the required columns alone (the first ones).
FullHeader == [i \in Fields |-> ts_csv_fields[i][2]]

Headers ==
    { FullHeader,
      SelectSeq(FullHeader, LAMBDA c : c # "ARCHIVE_DEST"),
      SubSeq(FullHeader, 1, Cardinality(REQUIRED)) }

\* The cells of a row every validator accepts.
GoodCells ==
    [c \in DOMAIN CSV_TS |->
        CASE c = "USE" -> "yes"
          [] c = "LOCATION" -> "EUC-R01C01"
          [] c = "EXPT" -> "BVZ00000"
          [] c = "CAM_NUM" -> "1"
          [] c = "SOURCE" -> "src"
          [] c = "DESTINATION" -> "dest"
          [] c = "ARCHIVE_DEST" -> "arch"
          [] c = "EXPT_END" -> "1970_01_03"
          [] c = "EXPT_START" -> "1970_01_02"
          [] c = "INTERVAL" -> "5"
          [] c = "IMAGE_TYPES" -> "jpg~raw"
          [] c = "METHOD" -> "move"
          [] c = "RESOLUTIONS" -> "original"
          [] c = "SUNRISE" -> "600"
          [] c = "SUNSET" -> "1800"
          [] c = "CAMERA_TIMEZONE" -> "1100"
          [] c = "USER" -> "Glasshouses"
          [] c = "MODE" -> "batch"
          [] c = "PROJECT_OWNER" -> "owner"
          [] OTHER -> ""]

\* One cell of a row written differently.
Rewrites ==
    { <<"USE", "yes">>, <<"USE", "no">>, <<"USE", "maybe">>, <<"EXPT_START", "bad">>,
      <<"INTERVAL", "x">>, <<"SOURCE", "nowhere">>, <<"EXPT_END", "now">> }

\* The number of columns of header h before column c (all of them when h has
\* no column c): a row may stop there.
ColumnsBefore(h, c) ==
    IF \E i \in 1..Len(h) : h[i] = c
    THEN (CHOOSE i \in 1..Len(h) : h[i] = c) - 1
    ELSE Len(h)

RowLengths(h) ==
    { Len(h), ColumnsBefore(h, "PROJECT_OWNER"), ColumnsBefore(h, "METHOD"),
      ColumnsBefore(h, "ARCHIVE_DEST") }

\* The rows: one rewritten cell each, and the rows with EXPT_END now that are
\* not in use or that a validator rejects.
Rows(h) ==
    { [i \in 1..n |-> IF h[i] = w[1] THEN w[2] ELSE GoodCells[h[i]]] :
        w \in Rewrites, n \in RowLengths(h) }
    \cup
    { [i \in 1..Len(h) |-> IF h[i] = "EXPT_END" THEN "now"
                           ELSE IF h[i] = w[1] THEN w[2] ELSE GoodCells[h[i]]] :
        w \in {<<"USE", "no">>, <<"INTERVAL", "x">>} }

\* Largest number of rows of a configuration file.
MaxRows == 2

RECURSIVE SeqsUpTo(_, _)
SeqsUpTo(S, n) ==
    IF n = 0 THEN {<<>>}
    ELSE LET shorter == SeqsUpTo(S, n - 1)
         IN  shorter \cup {Append(q, x) : q \in shorter, x \in S}

\* csv.DictReader: the dict of one row; None where the row has no cell.
DictRow(h, cells) ==
    [c \in {h[i] : i \in 1..Len(h)} |->
        LET i == CHOOSE j \in 1..Len(h) : h[j] = c
        IN  IF i <= Len(cells) THEN cells[i] ELSE NoneCell]

InitCsv ==
    /\ DATE_MASK = DEFAULT_DATE_MASK
    /\ call = Idle
    /\ ret = Pending
    /\ IdlePipeline
    /\ ongoing = FALSE
    /\ csv_header \in Headers
    /\ csv_rows \in SeqsUpTo(Rows(csv_header), MaxRows) \ {<<>>}
    /\ line = 1
    /\ yielded = <<>>
    /\ gen = "running"

\* One turn of the loop of lines 729-735: the row is validated and the camera
\* yielded when it is in use; SkipImage and ValueError drop the row, any other
\* exception leaves the generator.
ReadRow ==
    /\ gen = "running" /\ line <= Len(csv_rows)
    /\ \E cf \in CameraFields(DictRow(csv_header, csv_rows[line]), ongoing) :
        /\ ongoing' = cf.ongoing
        /\ IF cf.raised \in {SkipImage, ValueError}
           THEN UNCHANGED <<gen, yielded>>
           ELSE IF cf.raised # NoExc
           THEN gen' = cf.raised /\ UNCHANGED yielded
           ELSE IF ~cf.camera.use
           THEN UNCHANGED <<gen, yielded>>
           ELSE \E ps \in parse_structures(cf.camera) :
                   IF ps.raised # NoExc
                   THEN gen' = ps.raised /\ UNCHANGED yielded
                   ELSE /\ yielded' = Append(yielded, [line |-> line, camera |-> ps.camera])
                        /\ UNCHANGED gen
    /\ line' = line + 1
    /\ UNCHANGED <<DATE_MASK, call, ret, pipeline, csv_header, csv_rows>>

\* The reader has no more rows: the generator stops.
EndOfFile ==
    /\ gen = "running" /\ line > Len(csv_rows)
    /\ gen' = "exhausted"
    /\ UNCHANGED <<DATE_MASK, call, ret, pipeline, ongoing, csv_header, csv_rows, line,
                   yielded>>

NextCsv == ReadRow \/ EndOfFile

SpecCsv == InitCsv /\ [][NextCsv]_vars

-----------------------------------------------------------------------------
\* Claims about process_image

\* process_image has been invoked on last.image.
Invoked == last.stage # "none"

\* The resolved timestamp of the last invocation, as a point in time, against
\* the experiment window.
Resolved == Invoked /\ last.date # None
BeforeStart == last.date.tm_secs < cur_camera.expt_start.tm_secs
AfterEnd == last.date.tm_secs > cur_camera.expt_end.tm_secs
InWindow == Resolved /\ ~BeforeStart /\ ~AfterEnd

\* The full-resolution destination path of the last image.
LastStep == IF LowerTok(cur_ext) \in RAW_FORMATS THEN "raw" ELSE "orig"
LastOutImage == out_image_path(cur_camera, last.image, last.date, LastStep).path

\* The last image is one the pipeline timestreams: not a "last_image" file.
Regular == ~contains(lower(last.image), "last_image")

C2_CollisionAppendsSuffix ==
    (InWindow /\ last.stage = "end" /\ last.F = {}
     /\ LastOutImage \in DOMAIN last.pre_fs) =>
        LET sp == splitext(LastOutImage)
        IN  /\ sp.base \o <<"_1">> \o sp.ext \in DOMAIN disk
            /\ disk[LastOutImage] = last.pre_fs[LastOutImage]

\* C3: with method move and a single full-resolution target, an image whose
\* resolved timestamp t has expt_start <= t <= expt_end leaves exactly one
\* new file, at the destination path formed from t, and the source is gone
\* (no operation failing, the destination path free, a regular image).
C3_MoveWritesOneFile ==
    (InWindow /\ cur_camera.method = "move" /\ Len(cur_camera.resolutions) = 1
     /\ last.F = {} /\ Regular /\ LastOutImage \notin DOMAIN last.pre_fs) =>
        /\ DOMAIN disk \ DOMAIN last.pre_fs = {LastOutImage}
        /\ last.image \notin DOMAIN disk

\* C4: with method archive the file written into the archive tree equals the
\* source file as it was when process_image was entered.
C4_ArchiveIdentical ==
    (Invoked /\ cur_camera.method = "archive" /\ last.archive # <<>>) =>
        /\ last.archive \in DOMAIN disk
        /\ disk[last.archive] = last.pre_fs[last.image]

\* C5: no failure inside process_image (of a directory creation, a copy, a
\* decode, a save, a deletion) propagates an exception to process_camera: the
\* batch is never aborted.  Files whose embedded date is readable or absent.
C5_NoExceptionEscapes ==
    (Invoked /\ last.pre_fs[last.image].dto # Malformed) =>
        /\ last.raised = NoExc
        /\ batch # "aborted"

\* C6: after process_image on an in-window image of the matching type the
\* source is deleted if and only if the method is move or archive; for
\* resize, json and copy it still exists unchanged; a failing deletion raises
\* nothing and leaves the source in place.
C6_SourceDeletedIffMoveOrArchive ==
    (InWindow /\ last.stage # "type") =>
        LET deleting == cur_camera.method \in {"move", "archive"}
        IN  /\ (deleting /\ "unlink" \notin last.F /\ last.raised = NoExc)
                   => last.image \notin DOMAIN disk
            /\ (deleting /\ "unlink" \in last.F)
                   => (last.raised = NoExc /\ last.image \in DOMAIN disk)
            /\ ~deleting =>
                   /\ last.image \in DOMAIN disk
                   /\ disk[last.image] = last.pre_fs[last.image]

\* C13: with method resize, process_image on an in-window image of a
\* non-raw type only produces the resized derivatives: it does not copy the
\* source into the full-resolution timestream as well.
C13_ResizeOnlyDerivatives ==
    (InWindow /\ cur_camera.method = "resize" /\ last.stage # "type"
     /\ LowerTok(cur_ext) \notin RAW_FORMATS) =>
        LastOutImage \notin DOMAIN disk \ DOMAIN last.pre_fs

\* C14: every file process_image writes below the destination is either the
\* full-resolution output, under the template resolved with folder
\* "originals", or a resized derivative, under the template resolved with
\* folder "outputs"; in both cases followed by
\* YYYY/YYYY_MM/YYYY_MM_DD/YYYY_MM_DD_HH/{name}_YYYY_MM_DD_HH_MM_SS_NN.{ext}.
C14_OutputLayout ==
    Invoked =>
        \A p \in DOMAIN disk \ DOMAIN last.pre_fs :
            p[1] = cur_camera.destination[1] =>
                LET under(folder, res, step, ext) ==
                        join(join(cur_camera.destination,
                                  format(cur_camera.ts_structure, folder, res, step)),
                             TS_FMT(last.date,
                                    format(cur_camera.fn_structure, folder, res, step),
                                    0, ext))
                IN  \/ p = under("originals", "fullres", LastStep,
                                 strip_dot(splitext(last.image).ext))
                    \/ \E k \in 2..Len(cur_camera.resolutions) :
                          p = under("outputs",
                                    ResTag(cur_camera, cur_camera.resolutions[k]),
                                    "orig", <<"jpg">>)

\* C19: with method archive, over any sequence of runs, the copy of an original
\* into the archive tree lands on a path that held no file before and leaves
\* every file of the archive tree as it was; the path is the computed archive
\* path when that is free, and otherwise its stem with "_1" appended.
C19_ArchiveNeverClobbers ==
    (Invoked /\ cur_camera.method = "archive" /\ last.archive # <<>>) =>
        LET target == archive_path(cur_camera, last.image, cur_ext)
            stem == splitext(target).base
        IN  /\ last.archive \notin DOMAIN last.pre_fs
            /\ \A p \in DOMAIN last.pre_fs :
                   p[1] = cur_camera.archive_dest[1] =>
                       p \in DOMAIN disk /\ disk[p] = last.pre_fs[p]
            /\ IF target \notin DOMAIN last.pre_fs
               THEN last.archive = target
               ELSE /\ Len(last.archive) > Len(stem)
                    /\ SubSeq(last.archive, 1, Len(stem) + 1) = stem \o <<"_1">>

C21_DeleteByTimeKeepsInRange ==
    (call.fn = "dbt.process_timestream" /\ ret.state = "returned"
     /\ ret.out.raised = NoExc) =>
        \A image \in DOMAIN call.fs :
            LET d == get_file_date(call.fs[image], image, 0, 1, call.camera.date_mask,
                                   TRUE).date
                hm == <<HourOf(d.tm_secs), MinOf(d.tm_secs)>>
                in_dates == /\ call.camera.expt_start.tm_secs <= d.tm_secs
                            /\ d.tm_secs <= call.camera.expt_end.tm_secs
                in_times == /\ hm[1] * 60 + hm[2] >= call.camera.start_time[1] * 60
                                                       + call.camera.start_time[2]
                            /\ hm[1] * 60 + hm[2] <= call.camera.end_time[1] * 60
                                                       + call.camera.end_time[2]
            IN  IF in_dates /\ in_times
                THEN image \in DOMAIN ret.out.fs /\ ret.out.fs[image] = call.fs[image]
                ELSE /\ image \notin DOMAIN ret.out.fs
                     /\ \E q \in DOMAIN ret.out.fs :
                            /\ q[1] # call.camera.root_path[1]
                            /\ ret.out.fs[q] = call.fs[image]

\* C22: for every worker count, ListImagesByTime.process_timestream writes a
\* file that lists exactly the images whose resolved date is outside
\* [expt_start, expt_end] or whose time of day (to the minute) is outside
\* [start_time, end_time], and it leaves every image as it was.
C22_ListByTimeExact ==
    (call.fn = "lbt.process_timestream" /\ ret.state = "returned"
     /\ ret.out.raised = NoExc) =>
        LET d(image) == get_file_date(call.fs[image], image, 0, 1,
                                      call.camera.date_mask, TRUE).date
            mins(t) == t[1] * 60 + t[2]
            tod(image) == <<HourOf(d(image).tm_secs), MinOf(d(image).tm_secs)>>
            outside(image) ==
                /\ d(image) # None
                /\ \/ d(image).tm_secs < call.camera.expt_start.tm_secs
                   \/ d(image).tm_secs > call.camera.expt_end.tm_secs
                   \/ mins(tod(image)) < mins(call.camera.start_time)
                   \/ mins(tod(image)) > mins(call.camera.end_time)
        IN  /\ ret.out.written
            /\ {ret.out.csv[i] : i \in DOMAIN ret.out.csv}
                   = {image \in DOMAIN call.fs : outside(image)}
            /\ ret.out.fs = call.fs

\* C23: the first and last in-window timestamps of the summary of a batch are
\* computed only when every process_image task of the batch has finished, and
\* only then is the summary written.
C23_SummaryAfterDrain ==
    LET drained == /\ count = Len(cur_images)
                   /\ \A w \in DOMAIN pool.workers : pool.workers[w].pc = "free"
    IN  /\ (pool.workers # <<>> /\ pool.summary # None) => drained
        /\ (pool.workers # <<>> /\ pool.json # None) => drained

\* C24: process_image deletes the source file only when, in the same
\* invocation, a full-size copy of it was written to the destination
\* timestream or to the archive tree.
C24_DeleteOnlyAfterCopy ==
    (Invoked /\ last.image \in DOMAIN last.pre_fs /\ last.image \notin DOMAIN disk) =>
        \E p \in DOMAIN disk :
            /\ p[1] \in {cur_camera.destination[1], cur_camera.archive_dest[1]}
            /\ p \notin DOMAIN last.pre_fs \/ disk[p] # last.pre_fs[p]
            /\ disk[p].pix = last.pre_fs[last.image].pix
            /\ disk[p].size = last.pre_fs[last.image].size

\* C25: a directory creation that fails because the directory exists already
\* counts as success, and the image is copied; a directory creation that
\* fails and leaves the directory absent, in the timestream or in the archive
\* tree, raises nothing to the batch.
C25_DirectoryErrorsTolerated ==
    Invoked =>
        /\ (/\ last.stage = "end" /\ last.F = {}
            /\ dirname(LastOutImage) \in last.pre_dirs
            /\ LastOutImage \notin DOMAIN last.pre_fs) =>
               last.dest = LastOutImage /\ LastOutImage \in DOMAIN disk
        /\ (/\ cur_camera.method = "archive" /\ last.stage = "end" /\ last.F = {}
            /\ dirname(archive_path(cur_camera, last.image, cur_ext)) \in last.pre_dirs) =>
               last.archive \in DOMAIN disk
        /\ (/\ last.F \cap {"makedirs", "arch_makedirs"} # {}
            /\ last.stage \in {"archive", "end"}) => last.raised = NoExc

\* C26: parse_structures substitutes the field tokens of a user-supplied
\* template in one pass over the template: each field token of the original
\* template (EXPT_START as a whole) becomes the value of its field, and the
\* result is the same for every iteration order of the fields.
C26_SinglePassSubstitution ==
    (call.fn = "parse_structures" /\ ret.state = "returned" /\ ret.out.raised = NoExc
     /\ call.camera.ts_structure # "") =>
        LET RECURSIVE single(_)
            single(t) ==
                IF t = <<>> THEN <<>>
                ELSE IF Len(t) > 1 /\ t[1] = "EXPT" /\ t[2] = "_START"
                THEN <<"time.struct_time">> \o single(SubSeq(t, 3, Len(t)))
                ELSE (CASE t[1] = "EXPT" -> <<call.camera.expt>>
                        [] t[1] = "LOCATION" -> <<call.camera.location>>
                        [] t[1] = "CAM_NUM" -> <<call.camera.cam_num>>
                        [] OTHER -> <<t[1]>>) \o single(Tail(t))
            body == single(Tokens(call.camera.ts_structure))
            stripped == IF body # <<>> /\ Head(body) = "/" THEN Tail(body) ELSE body
        IN  /\ ret.out.camera.ts_structure
                   = [i \in DOMAIN stripped |-> IF stripped[i] = "_" THEN "-"
                                                ELSE stripped[i]]
                     \o <<"~", "{res}", "-", "{step}">>
            /\ \A ps \in parse_structures(call.camera) : ps = ret.out

\* C27: with more than one resolution configured, after timestreamise_image
\* has succeeded on a non-raw image a resized derivative exists for each of
\* the additional resolutions, each in a subtree of its own, whichever of
\* them an earlier run had left behind.
C27_EveryDerivativeExists ==
    (call.fn = "timestreamise_image" /\ ret.state = "returned"
     /\ ret.out.raised = NoExc /\ Len(call.camera.resolutions) > 1) =>
        /\ Cardinality(Derivatives(call.camera,
                                   [path |-> call.image, file |-> call.fs[call.image]]))
             = Len(call.camera.resolutions) - 1
        /\ \A q \in Derivatives(call.camera,
                                [path |-> call.image, file |-> call.fs[call.image]]) :
              /\ q \in DOMAIN ret.out.fs
              /\ \A r \in Derivatives(call.camera,
                                      [path |-> call.image,
                                       file |-> call.fs[call.image]]) :
                    r # q => dirname(r) # dirname(q)

C29_ResolutionsArePairs ==
    (call.fn = "resolution_calc" /\ ret.state = "returned" /\ call.opens) =>
        LET W == call.size[1]
            H == call.size[2]
            turned == call.orientation \in {"90", "270"}
            pair(w, h) == IF turned THEN [full |-> FALSE, w |-> h, h |-> w]
                          ELSE [full |-> FALSE, w |-> w, h |-> h]
        IN  /\ Len(ret.out) = Len(call.resolutions)
            /\ \A i \in 1..Len(call.resolutions) :
                  /\ ~ret.out[i].full /\ ret.out[i].h # NoHeight
                  /\ call.resolutions[i].full => ret.out[i] = pair(W, H)
                  /\ (~call.resolutions[i].full /\ call.resolutions[i].h = NoHeight) =>
                        ret.out[i] = pair(call.resolutions[i].w,
                                          (H * call.resolutions[i].w) \div W)
            /\ (Len(call.resolutions) = 2 /\ call.resolutions[1].full
                /\ call.resolutions[2] = [full |-> FALSE, w |-> 1920, h |-> NoHeight]
                /\ call.size = <<5184, 3456>> /\ ~turned) =>
                    ret.out = <<[full |-> FALSE, w |-> 5184, h |-> 3456],
                                [full |-> FALSE, w |-> 1920, h |-> 1280]>>

\* C18: when process_image resolves the date of an image from its file name,
\* the mask it parses the name with is the filename_date_mask of the camera,
\* or the default mask when that is empty.
C18_CameraMaskUsed ==
    (Invoked /\ last.raised = NoExc
     /\ last.pre_fs[last.image].dto = NoTag /\ last.pre_fs[last.image].idt = NoTag) =>
        LET mask == IF cur_camera.filename_date_mask = "" THEN DEFAULT_DATE_MASK
                    ELSE cur_camera.filename_date_mask
            fn_date == FirstParsed(findall(mask, last.image))
        IN  last.date = IF fn_date = None THEN None
                        ELSE Adjusted(fn_date, cur_camera.timeshift,
                                      cur_camera.interval * SecsPerMin)

-----------------------------------------------------------------------------
\* Claims about parse_camera_config_csv

\* Row i has every required field and every validator accepts its cells.
RowValid(i) ==
    LET d == DictRow(csv_header, csv_rows[i])
        keys == {CSV_TS[c] : c \in DOMAIN d \cap DOMAIN CSV_TS}
    IN  /\ REQUIRED \ {"interval", "method"} \subseteq keys
        /\ \A k \in keys : SCHEMA(k, d[TS_CSV[k]], FALSE).raised = NoExc

\* The use flag of a valid row i is true.
RowUsed(i) == bool_str(DictRow(csv_header, csv_rows[i])["USE"]).value

\* C7: parse_camera_config_csv never raises: a row that lacks a required
\* field or whose validator fails is dropped, and the generator yields, in
\* file order, exactly the valid rows whose use flag is true.
C7_BadRowsDropped ==
    /\ gen \in {"idle", "running", "exhausted"}
    /\ \A j \in 1..Len(yielded) : RowValid(yielded[j].line) /\ RowUsed(yielded[j].line)
    /\ gen = "exhausted" =>
         [j \in 1..Len(yielded) |-> yielded[j].line]
           = SelectSeq([i \in 1..Len(csv_rows) |-> i],
                       LAMBDA i : RowValid(i) /\ RowUsed(i))

\* C30: whatever the rows of the configuration, unused and invalid ones
\* included, when main has taken a camera from the generator and builds its
\* summary, the flag ongoing read for ts_end is the one date_end set for that
\* camera's own row: ts_end is "now" if and only if the EXPT_END of that row
\* is now or current.
C30_OngoingIsOwnRow ==
    (yielded # <<>> /\ yielded[Len(yielded)].line = line - 1) =>
        (ongoing <=>
            DictRow(csv_header, csv_rows[line - 1])["EXPT_END"] \in DATE_NOW_CONSTANTS)

\* C30 witness: the camera of the second row, whose EXPT_END is a date, is
\* with main after a first row with EXPT_END now that yielded no camera.
C30_Witness ==
    /\ Len(yielded) = 1 /\ yielded[1].line = 2 /\ line = 3
    /\ DictRow(csv_header, csv_rows[1])["EXPT_END"] = "now"
    /\ DictRow(csv_header, csv_rows[2])["EXPT_END"] = "1970_01_03"
    /\ ~ongoing

-----------------------------------------------------------------------------
\* Claims about the pure functions

\* C8: get_new_file_name raises SkipImage if and only if the timestamp is None
\* or the name is None or empty; otherwise it returns
\* YYYY/YYYY_MM/YYYY_MM_DD/YYYY_MM_DD_HH/{name}_YYYY_MM_DD_HH_MM_SS_{n:02d}.{ext}
\* built from the given timestamp and the given name.
C8_NewFileNameSkipsIffNull ==
    (call.fn = "get_new_file_name" /\ ret.state = "returned") =>
        LET s == call.date_tuple.tm_secs
            Y == <<ToString(YearOf(s))>>
            m == D2(MonthOf(s))
            d == D2(MDayOf(s))
            H == D2(HourOf(s))
            u == <<"_">>
            null == call.date_tuple = None \/ call.ts_name = NoneStr \/ call.ts_name = <<>>
        IN  /\ ret.out.raised = SkipImage <=> null
            /\ ~null =>
                 /\ ret.out.raised = NoExc
                 /\ ret.out.value =
                      Y \o <<"/">> \o Y \o u \o m \o <<"/">> \o Y \o u \o m \o u \o d \o <<"/">> \o
                      Y \o u \o m \o u \o d \o u \o H \o <<"/">> \o
                      call.ts_name \o u \o Y \o u \o m \o u \o d \o u \o H \o u \o
                      D2(MinOf(s)) \o u \o D2(SecOf(s)) \o u \o
                      <<ToString(call.n \div 10), ToString(call.n % 10)>> \o <<".">> \o call.ext

\* A call with a timestamp and a non-empty name has returned a file name.
C8_Witness ==
    /\ call.fn = "get_new_file_name" /\ ret.state = "returned"
    /\ call.date_tuple # None /\ call.ts_name = <<"test">> /\ call.n = MaxN
    /\ ret.out.raised = NoExc

\* C9: rounding is idempotent: round_struct_time(round_struct_time(t, r), r)
\* equals round_struct_time(t, r) for every sampled t and r > 1.
C9_RoundIdempotent ==
    (call.fn = "round_struct_time" /\ ret.state = "rounded twice") =>
        ret.twice = ret.once

\* A time that rounding moved has been rounded twice.
C9_Witness ==
    /\ call.fn = "round_struct_time" /\ ret.state = "rounded twice"
    /\ ret.once.tm_secs # call.in_time.tm_secs

\* C10: get_file_date returns the embedded capture time whenever one is
\* readable, whatever the file name holds; otherwise the first match of the
\* date pattern in the file name that parses under the mask; otherwise None;
\* and a failed write-back of the date does not change what is returned.
C10_CascadeFirstSuccess ==
    (call.fn = "get_file_date" /\ ret.state = "returned") =>
        LET f == call.file
            mask == IF call.date_mask = "" THEN DEFAULT_DATE_MASK ELSE call.date_mask
            ms == findall(mask, call.filename)
            parsed == {i \in 1..Len(ms) : ms[i].ok}
            first == CHOOSE i \in parsed : \A j \in parsed : i <= j
            base == IF f.jpeg /\ f.dto.tag = "ok" THEN strptime(f.dto.secs)
                    ELSE IF f.idt.tag = "ok" THEN strptime(f.idt.secs)
                    ELSE IF parsed # {} THEN strptime(ms[first].secs)
                    ELSE None
            other == get_file_date(f, call.filename, call.timeshift, call.round_secs,
                                   call.date_mask, ~call.io_ok)
        IN  /\ ret.out.raised = NoExc
            /\ ret.out.date = IF base = None THEN None
                              ELSE Adjusted(base, call.timeshift, call.round_secs)
            /\ other.date = ret.out.date

-----------------------------------------------------------------------------
\* Claims about process_camera

\* C11: when pool workers run process_image on source files that resolve to
\* the same destination path, no interleaving lets one worker overwrite what
\* another wrote: when the batch is finished, the content first written to
\* each destination path is still held by some file below the destination.
C11_NoOverwriteInPool ==
    batch = "finished" =>
        \A i \in DOMAIN pool.written :
            (\A j \in 1..(i - 1) : pool.written[j].path # pool.written[i].path) =>
                \E p \in DOMAIN disk : /\ p[1] = cur_camera.destination[1]
                                        /\ disk[p] = pool.written[i].file

C15_TemplatePlaceholders ==
    (call.fn = "parse_structures" /\ ret.state = "returned"
     /\ ret.out.raised = NoExc) =>
        LET ts == ret.out.camera.ts_structure
            toks == {ts[i] : i \in DOMAIN ts}
        IN  /\ {"{folder}", "{res}", "{step}"} \subseteq toks
            /\ \A i, j \in DOMAIN ts :
                  (ts[i] = ts[j] /\ ts[i] \in {"{folder}", "{res}", "{step}"}) => i = j
            /\ toks \cap {"EXPT", "LOCATION", "CAM_NUM", "_START", "-START"} = {}

\* C16: find_image_files returns files of deeper sub-folders of the search
\* root only when the sub-folder flag of the camera is true: with the flag
\* false every file returned lies directly in the search root.
C16_SubFolderFlag ==
    (call.fn = "find_image_files" /\ ret.state = "returned"
     /\ ~call.camera.sub_folder) =>
        \A p \in ret.out :
            \/ dirname(p) = call.camera.source
            \/ \E x \in {"jpg", "raw"} : dirname(p) = join(call.camera.source, <<x>>)

\* C17: for a type tag, find_image_files returns exactly the files of the
\* walked subtree that are neither dotfiles nor underscore-prefixed entries
\* (nor inside such a directory) and whose lowercase extension equals the
\* tag or, for the tag raw, is one of the raw formats (no file name filter
\* being configured).
C17_ExactlyMatchingFiles ==
    (call.fn = "find_image_files" /\ ret.state = "returned"
     /\ call.camera.fn_parse = "") =>
        LET root == IF \E p \in call.tree : /\ Len(p) > 4 /\ p[4] = "/"
                                            /\ LowerTok(p[3]) = call.ext
                    THEN join(call.camera.source, <<call.ext>>)
                    ELSE call.camera.source
            walked == {p \in call.tree : /\ Len(p) > Len(root) + 1
                                        /\ SubSeq(p, 1, Len(root) + 1) = root \o <<"/">>}
        IN  ret.out =
              { p \in walked :
                  /\ \A i \in DOMAIN p : ~Hidden(p[i])
                  /\ \/ LowerTok(ext_of(p)) = call.ext
                     \/ call.ext = "raw" /\ LowerTok(ext_of(p)) \in RAW_FORMATS }

=============================================================================
